---- MODULE Spec2Model ----
(***************************************************************************)
(* A model of aiosolr: the request pipeline of the Solr client             *)
(* (aiosolr/aiosolr.py), the error extractor (aiosolr/error_extractor.py)  *)
(* and the helpers of aiosolr/utils.py.  Python strings are TLA+ strings,  *)
(* a value that may be None is NoneV or Some(v), an exception is a record.  *)
(***************************************************************************)
EXTENDS Integers, Sequences, FiniteSets, TLC

\* The names of the fields of the model's records.  TLC holds the fields of
\* a record in the order in which their names first occur in the module:
\* named here in the order the records are written with, every record is
\* held as it is built, also one that several workers of TLC have in hand.
RecordFields ==
    DOMAIN [tag |-> {}, name |-> {}, raw |-> {}, xml |-> {}, json |-> {}, t |-> {}, n |-> {},
            s |-> {}, items |-> {}, members |-> {}, method |-> {}, url |-> {}, data |-> {},
            content_type |-> {}, clean_ctrl_chars |-> {}, commit |-> {}, softCommit |-> {},
            waitFlush |-> {}, waitSearcher |-> {}, overwrite |-> {}, b |-> {}, attrib |-> {},
            pos |-> {}, yielded |-> {}, done |-> {}, kind |-> {}, cls |-> {}, category |-> {},
            message |-> {}, server |-> {}, status |-> {}, headers |-> {}, body |-> {},
            content |-> {}, pending |-> {}, visible |-> {}, reply |-> {}, served |-> {}, op |-> {},
            docs |-> {}, hits |-> {}, debug |-> {}, highlighting |-> {}, facets |-> {},
            spellcheck |-> {}, stats |-> {}, qtime |-> {}, grouped |-> {}, nextCursorMark |-> {},
            fields |-> {}, prefix |-> {}, id |-> {}, q |-> {}, search_handler |-> {}, mltfl |-> {},
            kwargs |-> {}, response |-> {}, fn |-> {}, value |-> {}, doc |-> {}, boost |-> {},
            fieldUpdates |-> {}, flags |-> {}, commitWithin |-> {}, expungeDeletes |-> {},
            maxSegments |-> {}, result |-> {}, input |-> {}, raw_metadata |-> {}, metadata |-> {},
            decoded |-> {}, pc |-> {}, raised |-> {}, text |-> {}, kids |-> {}, tail |-> {},
            returned |-> {}, reason |-> {}, full_html |-> {}, v |-> {}, full_response |-> {},
            scraped |-> {}, self |-> {}, len |-> {}, call |-> {}, request |-> {}, found |-> {}]

\* A value that may be None is a tuple: <<>> is None, <<v>> is the value v.
NoneV == <<>>

Some(v) == <<v>>

Val(o) == o[1]

(***************************************************************************)
(* Strings.                                                                *)
(***************************************************************************)

\* s[i:i+1] of Python, 1-based: "" outside the string.
CharAt(s, i) == IF i >= 1 /\ i <= Len(s) THEN SubSeq(s, i, i) ELSE ""

\* s[a-1:b] of Python: the characters a..b that exist.
Slice(s, a, b) ==
    LET lo == IF a < 1 THEN 1 ELSE a
        hi == IF b > Len(s) THEN Len(s) ELSE b
    IN IF lo > hi THEN "" ELSE SubSeq(s, lo, hi)

\* s * n
RECURSIVE Rep(_, _)
Rep(s, n) ==
    IF n = 0 THEN ""
    ELSE IF n % 2 = 1 THEN s \o Rep(s, n - 1)
    ELSE LET h == Rep(s, n \div 2) IN h \o h

\* str.startswith, at offset i (1-based)
StartsAt(s, i, p) == i + Len(p) - 1 <= Len(s) /\ SubSeq(s, i, i + Len(p) - 1) = p

StartsWith(s, p) == StartsAt(s, 1, p)

Smallest(ns) == CHOOSE k \in ns : \A n \in ns : k <= n

Largest(ns) == CHOOSE k \in ns : \A n \in ns : n <= k

SmallestOr0(ns) == IF ns = {} THEN 0 ELSE Smallest(ns)

\* the least index >= i where p starts in s, 0 when there is none
FindFrom(s, p, i) == SmallestOr0({j \in i..(Len(s) - Len(p) + 1) : StartsAt(s, j, p)})

\* p in s
Contains(s, p) == FindFrom(s, p, 1) # 0

\* s.replace(old, new), old not empty, from index i on: j is the next place
\* of old, 0 when there is none.
RECURSIVE ReplaceFrom(_, _, _, _)
ReplaceAt(s, old, new, i, j) ==
    IF j = 0 THEN Slice(s, i, Len(s))
    ELSE Slice(s, i, j - 1) \o new \o ReplaceFrom(s, old, new, j + Len(old))

ReplaceFrom(s, old, new, i) == ReplaceAt(s, old, new, i, FindFrom(s, old, i))

Replace(s, old, new) == ReplaceFrom(s, old, new, 1)

\* the characters str.strip() removes (the ASCII ones)
Whitespace == {" ", "\t", "\n", "\r"}

RECURSIVE LStripSet(_, _)
LStripSet(s, cs) ==
    IF Len(s) > 0 /\ CharAt(s, 1) \in cs THEN LStripSet(SubSeq(s, 2, Len(s)), cs) ELSE s

RECURSIVE RStripSet(_, _)
RStripSet(s, cs) ==
    IF Len(s) > 0 /\ CharAt(s, Len(s)) \in cs THEN RStripSet(SubSeq(s, 1, Len(s) - 1), cs) ELSE s

\* str.strip()
Strip(s) == LStripSet(RStripSet(s, Whitespace), Whitespace)

UpperCase == "ABCDEFGHIJKLMNOPQRSTUVWXYZ"
LowerCase == "abcdefghijklmnopqrstuvwxyz"

LowerAt(c, i) == IF i = 0 THEN c ELSE CharAt(LowerCase, i)

LowerChar(c) == LowerAt(c, FindFrom(UpperCase, c, 1))

\* str.lower(), by halves so that a long string is not deep
RECURSIVE Lower(_)
Lower(s) ==
    IF Len(s) = 0 THEN ""
    ELSE IF Len(s) = 1 THEN LowerChar(s)
    ELSE Lower(SubSeq(s, 1, Len(s) \div 2)) \o Lower(SubSeq(s, (Len(s) \div 2) + 1, Len(s)))

\* sep.join(parts)
RECURSIVE Join(_, _)
Join(sep, parts) ==
    IF Len(parts) = 0 THEN ""
    ELSE IF Len(parts) = 1 THEN parts[1]
    ELSE parts[1] \o sep \o Join(sep, Tail(parts))

(***************************************************************************)
(* Markup.  An element of xml.etree.ElementTree is a record: its tag, the  *)
(* name attribute, its text and its tail (each NoneV when missing, as      *)
(* ElementTree has them) and its children in order.                        *)
(***************************************************************************)

El(tag, name, text, kids, tail) ==
    [tag |-> tag, name |-> name, text |-> text, kids |-> kids, tail |-> tail]

\* The text a server writes for a string: & < > as entities.
XmlEscape(s) == Replace(Replace(Replace(s, "&", "&amp;"), "<", "&lt;"), ">", "&gt;")

TextOf(t) == IF t = NoneV THEN "" ELSE XmlEscape(Val(t))

OpenTag(e) ==
    "<" \o e.tag \o (IF e.name = NoneV THEN "" ELSE " name=\"" \o Val(e.name) \o "\"")

\* The markup of an element as the server sends it: empty elements in full.
\* The trees of this model are at most three levels deep.
ServerLeaf(e) == OpenTag(e) \o ">" \o TextOf(e.text) \o "</" \o e.tag \o ">" \o TextOf(e.tail)

ServerMid(e) ==
    OpenTag(e) \o ">" \o TextOf(e.text)
        \o Join("", [i \in 1..Len(e.kids) |-> ServerLeaf(e.kids[i])])
        \o "</" \o e.tag \o ">" \o TextOf(e.tail)

ServerMarkup(e) ==
    OpenTag(e) \o ">" \o TextOf(e.text)
        \o Join("", [i \in 1..Len(e.kids) |-> ServerMid(e.kids[i])])
        \o "</" \o e.tag \o ">" \o TextOf(e.tail)

\* ElementTree.tostring(element): an element without text and children is
\* written "<tag />", the tail follows the element.
ETBody(e, inner) ==
    IF e.text = NoneV /\ Len(e.kids) = 0
    THEN OpenTag(e) \o " />" \o TextOf(e.tail)
    ELSE OpenTag(e) \o ">" \o TextOf(e.text) \o inner \o "</" \o e.tag \o ">" \o TextOf(e.tail)

ETLeaf(e) == ETBody(e, "")

ETMid(e) == ETBody(e, Join("", [i \in 1..Len(e.kids) |-> ETLeaf(e.kids[i])]))

tostring(e) == ETBody(e, Join("", [i \in 1..Len(e.kids) |-> ETMid(e.kids[i])]))

\* One step of an ElementTree path: tag, or tag[@name="value"].
StepMatches(e, tag, name) == e.tag = tag /\ (name = NoneV \/ e.name = name)

\* The children of the elements of `els` that match a step, in document order.
RECURSIVE KidsMatching(_, _, _)
KidsMatching(els, tag, name) ==
    IF Len(els) = 0 THEN <<>>
    ELSE SelectSeq(els[1].kids, LAMBDA k: StepMatches(k, tag, name))
            \o KidsMatching(Tail(els), tag, name)

\* Element.find("t1[@name=n1]/t2[@name=n2]"): the first match, or None.
FirstOf(m) == IF Len(m) = 0 THEN NoneV ELSE Some(m[1])

find(root, t1, n1, t2, n2) == FirstOf(KidsMatching(KidsMatching(<<root>>, t1, n1), t2, n2))

(***************************************************************************)
(* A response body: the text the server sent (raw), what                   *)
(* ElementTree.fromstring makes of it (xml: the root element, or NoneV for *)
(* a ParseError) and what json.loads makes of it (json: the value, or      *)
(* NoneV for a ValueError).                                                *)
(***************************************************************************)

XmlDeclaration == "<?xml version=\"1.0\"?>\n"

\* The body a server writes for a tree, with or without the declaration;
\* cut short of its last closing tag it is not well-formed.
BodyOfText(text, tree, wellFormed) ==
    IF wellFormed
    THEN [raw |-> text, xml |-> Some(tree), json |-> NoneV]
    ELSE [raw |-> SubSeq(text, 1, Len(text) - Len(tree.tag) - 3), xml |-> NoneV, json |-> NoneV]

XmlBody(decl, tree, wellFormed) ==
    BodyOfText((IF decl THEN XmlDeclaration ELSE "") \o ServerMarkup(tree), tree, wellFormed)

\* A body that is neither markup nor JSON.
TextBody(text) == [raw |-> text, xml |-> NoneV, json |-> NoneV]

\* ElementTree.fromstring(response)
fromstring(response) == response.xml

(***************************************************************************)
(* re.search(r'<(h1)[^>]*>\s*(.+?)\s*</\1>', response, re.IGNORECASE):     *)
(* group 2 of the leftmost match, or NoneV.                                *)
(***************************************************************************)

\* The number of whitespace characters of s from index i on.
RECURSIVE WsRun(_, _)
WsRun(s, i) == IF i <= Len(s) /\ CharAt(s, i) \in Whitespace THEN 1 + WsRun(s, i + 1) ELSE 0

\* \s*</\1> matches at index i (the back-reference ignores case too).
ClosesAt(s, i) == \E t \in 0..WsRun(s, i) : Lower(Slice(s, i + t, i + t + 4)) = "</h1>"

\* (.+?) of length n at index i: no line feed in it.
DotRun(s, i, n) == \A k \in i..(i + n - 1) : CharAt(s, k) # "\n"

\* The ways \s*(.+?)\s*</\1> matches from index j on: <<k, n>> for k
\* characters of white space and a group of n characters.
H1Cands(s, j) ==
    {c \in (0..WsRun(s, j)) \X (1..Len(s)) :
        /\ j + c[1] + c[2] - 1 <= Len(s)
        /\ DotRun(s, j + c[1], c[2])
        /\ ClosesAt(s, j + c[1] + c[2])}

\* \s* is greedy and gives back, (.+?) is lazy: the most white space, and
\* then the shortest group.
H1Group(s, j, cands, k) ==
    SubSeq(s, j + k, j + k + Smallest({c[2] : c \in {d \in cands : d[1] = k}}) - 1)

H1Pick(s, j, cands) ==
    IF cands = {} THEN NoneV ELSE Some(H1Group(s, j, cands, Largest({c[1] : c \in cands})))

\* The match that begins with "<h1" at index i: [^>]* runs to the first ">",
\* at index gt.
H1After(s, gt) == IF gt = 0 THEN NoneV ELSE H1Pick(s, gt + 1, H1Cands(s, gt + 1))

H1MatchAt(s, i) == H1After(s, FindFrom(s, ">", i + 3))

RECURSIVE H1SearchFrom(_, _)
H1Try(s, at, m) == IF m # NoneV THEN m ELSE H1SearchFrom(s, at + 1)

H1TryAt(s, at) == IF at = 0 THEN NoneV ELSE H1Try(s, at, H1MatchAt(s, at))

H1SearchFrom(s, i) == H1TryAt(s, FindFrom(Lower(s), "<h1", i))

H1Search(s) == H1SearchFrom(s, 1)

(***************************************************************************)
(* error_extractor.scrape_response                                         *)
(***************************************************************************)

\* The truth value of a str-or-None: None and "" are false.
Truthy(o) == o # NoneV /\ Val(o) # ""

\* headers.get('server', ''): the headers are a record whose fields are
\* NoneV when the header is missing.
server_string(headers) == IF headers.server = NoneV THEN "" ELSE Val(headers.server)

\* lines 14-21: the second test overrides the first.
ServerTypeOf(s) ==
    IF s # "" /\ Contains(s, "coyote") THEN "tomcat"
    ELSE IF s # "" /\ Contains(s, "jetty") THEN "jetty"
    ELSE "none"

server_type(headers) == ServerTypeOf(Lower(server_string(headers)))

\* What a piece of scrape_response leaves behind: the exception it raised
\* ("" for none), whether it returned, and the two locals.
Scraped(raised, returned, reason, full_html) ==
    [raised |-> raised, returned |-> returned, reason |-> reason, full_html |-> full_html]

\* lines 37-46, for a body that parsed: the two nodes are looked at in turn
\* and .text.strip() raises AttributeError on a node without text.
\* The strict branch without its return of line 46.
StrictResultGoesOn(reason, full_html) == Scraped("", FALSE, reason, full_html)

\* line 45: the function returns when both are true.
StrictResult(reason, full_html) == Scraped("", Truthy(reason) /\ full_html # "", reason, full_html)

\* The strict branch without line 40: the trace is not made the detail.
StrictTraceDropped(reason, trace) ==
    IF reason = NoneV THEN StrictResult(trace, IF trace = NoneV THEN "" ELSE Val(trace))
    ELSE StrictResult(reason, Val(reason))

\* lines 39-42, with the reason the message node gave and the stripped text
\* of the trace node (NoneV without the node).
StrictTrace(reason, trace) ==
    IF trace = NoneV THEN StrictResult(reason, IF reason = NoneV THEN "" ELSE Val(reason))
    ELSE StrictResult(IF reason = NoneV THEN trace ELSE reason, Val(trace))

\* node.text.strip() of a node that exists, NoneV for no node
StrippedText(node) == IF node = NoneV THEN NoneV ELSE Some(Strip(Val(Val(node).text)))

NoText(node) == node # NoneV /\ Val(node).text = NoneV

StrictNodes(reason_node, tb_node) ==
    IF NoText(reason_node) \/ NoText(tb_node)
    THEN Scraped("AttributeError", FALSE, NoneV, "")
    ELSE StrictTrace(StrippedText(reason_node), StrippedText(tb_node))

\* lines 30-49: the strict parse of a body that starts with the declaration.
StrictFind(soup) ==
    StrictNodes(find(soup, "lst", Some("error"), "str", Some("msg")),
                find(soup, "lst", Some("error"), "str", Some("trace")))

\* The strict branch without the except clause of line 47: the ParseError
\* leaves scrape_response.
StrictParseUncaught(response) ==
    IF ~StartsWith(response.raw, "<?xml") THEN Scraped("", FALSE, NoneV, "")
    ELSE IF fromstring(response) = NoneV THEN Scraped("ParseError", FALSE, NoneV, "")
    ELSE StrictFind(Val(fromstring(response)))

StrictParse(response) ==
    IF ~StartsWith(response.raw, "<?xml") \/ fromstring(response) = NoneV
    THEN Scraped("", FALSE, NoneV, "")
    ELSE StrictFind(Val(fromstring(response)))

\* lines 51-57: Tomcat, the first h1 by regular expression.
TomcatResult(response, st, m) ==
    IF m # NoneV
    THEN Scraped("", FALSE, m, st.full_html)
    ELSE Scraped("", FALSE, st.reason, response.raw)

ScrapeTomcat(response, st) == TomcatResult(response, st, H1Search(response.raw))

\* lines 58-78: the others, a parse and a look at body/pre or head/title.
\* lines 73-74
LenientResult(dom_tree, st, reason) ==
    Scraped("", FALSE, reason, IF reason = NoneV THEN tostring(dom_tree) ELSE st.full_html)

\* lines 70-71
LenientNode(dom_tree, st, reason_node) ==
    LenientResult(dom_tree, st, IF reason_node # NoneV THEN Val(reason_node).text ELSE st.reason)

\* The look at head/title for every server type.
LenientFindTitle(dom_tree, type, st) ==
    LenientNode(dom_tree, st, find(dom_tree, "head", NoneV, "title", NoneV))

\* lines 65-68
LenientFind(dom_tree, type, st) ==
    LenientNode(dom_tree, st,
                IF type = "jetty" THEN find(dom_tree, "body", NoneV, "pre", NoneV)
                ELSE find(dom_tree, "head", NoneV, "title", NoneV))

ScrapeLenient(response, type, st) ==
    IF fromstring(response) = NoneV
    THEN Scraped("", FALSE, st.reason, response.raw)
    ELSE LenientFind(Val(fromstring(response)), type, st)

\* lines 80-85
NormalizeHtml(full_html) ==
    Strip(Replace(Replace(Replace(Replace(full_html, "\n", ""), "\r", ""), "<br/>", ""),
                  "<br />", ""))

\* lines 80-86
Normalized(h) == [raised |-> "", reason |-> h.reason, full_html |-> NormalizeHtml(h.full_html)]

\* lines 51-78: the scraping by server type
Heuristics(type, response, st) ==
    Normalized(IF type = "tomcat" THEN ScrapeTomcat(response, st)
               ELSE ScrapeLenient(response, type, st))

\* scrape_response without lines 51-78: what the strict parse left is
\* normalised and returned.
AfterStrictNoHeuristics(headers, response, st) ==
    IF st.raised # "" THEN [raised |-> st.raised, reason |-> NoneV, full_html |-> ""]
    ELSE IF st.returned THEN [raised |-> "", reason |-> st.reason, full_html |-> st.full_html]
    ELSE Normalized(st)

\* The rest of scrape_response once the strict parse is through.
AfterStrict(headers, response, st) ==
    IF st.raised # "" THEN [raised |-> st.raised, reason |-> NoneV, full_html |-> ""]
    ELSE IF st.returned THEN [raised |-> "", reason |-> st.reason, full_html |-> st.full_html]
    ELSE Heuristics(server_type(headers), response, st)

\* scrape_response(headers, response): [raised, reason, full_html]
scrape_response(headers, response) == AfterStrict(headers, response, StrictParse(response))

(***************************************************************************)
(* utils.unescape_html                                                     *)
(***************************************************************************)

Digits == "0123456789"
HexDigits == "0123456789abcdef"

\* \w of the regular expression (the ASCII part)
WordChars == Digits \o LowerCase \o UpperCase \o "_"

IsWord(c) == Len(c) = 1 /\ Contains(WordChars, c)

\* The largest value of a C int: chr() raises OverflowError above it.
CIntMax == 2147483647

\* The largest code point: chr() raises ValueError above it.
MaxCodePoint == 1114111

\* The results of int() and chr() that are not a value.
ValueErr == -1
OverflowErr == -2

\* int(s, base) for a string of word characters: ValueErr when s is empty or
\* holds something that is no digit of the base; a value above CIntMax is
\* reported as OverflowErr, which is what chr() makes of it.
RECURSIVE IntFrom(_, _, _, _)
\* with the value d of the digit at index i, -1 for no digit of the base
IntDigit(s, base, i, acc, d) ==
    IF d < 0 THEN ValueErr
    ELSE IF acc = OverflowErr \/ acc > (CIntMax - d) \div base
    THEN IntFrom(s, base, i + 1, OverflowErr)
    ELSE IntFrom(s, base, i + 1, acc * base + d)

IntFrom(s, base, i, acc) ==
    IF i > Len(s) THEN acc
    ELSE IntDigit(s, base, i, acc,
                  FindFrom(SubSeq(HexDigits, 1, base), LowerChar(CharAt(s, i)), 1) - 1)

IntOf(digits, base) == IF Len(digits) = 0 THEN ValueErr ELSE IntFrom(digits, base, 1, 0)

\* int(s, 16) takes a 0x prefix.
int(s, base) ==
    IntOf(IF base = 16 /\ Lower(Slice(s, 1, 2)) = "0x" THEN Slice(s, 3, Len(s)) ELSE s, base)

\* The characters of code points 32 to 126 (96, which a TLA+ string cannot
\* hold, is written as the replacement mark).
Ascii == " !\"#$%&'()*+,-./0123456789:;<=>?@ABCDEFGHIJKLMNOPQRSTUVWXYZ[\\]^_?abcdefghijklmnopqrstuvwxyz{|}~"

\* chr(n) for a code point: the model writes the characters outside ASCII,
\* tab, line feed and carriage return as the replacement mark "?".
chr(n) ==
    IF n >= 32 /\ n <= 126 THEN CharAt(Ascii, n - 31)
    ELSE IF n = 9 THEN "\t"
    ELSE IF n = 10 THEN "\n"
    ELSE IF n = 13 THEN "\r"
    ELSE "?"

\* html.entities.name2codepoint, the entries the model's bodies use.
name2codepoint(name) ==
    CASE name = "amp" -> 38
      [] name = "lt" -> 60
      [] name = "gt" -> 62
      [] name = "quot" -> 34
      [] name = "nbsp" -> 160
      [] OTHER -> ValueErr

\* fixup(m) for the matched text: [raised, text].  The ValueError of int()
\* and of chr() is caught and leaves the text as it is; the OverflowError
\* of chr() is not caught.
Fixed(text, n) ==
    IF n = OverflowErr THEN [raised |-> "OverflowError", text |-> text]
    ELSE IF n = ValueErr \/ n > MaxCodePoint THEN [raised |-> "", text |-> text]
    ELSE [raised |-> "", text |-> chr(n)]

fixup(text) ==
    Fixed(text, IF Slice(text, 1, 3) = "&#x" THEN int(Slice(text, 4, Len(text) - 1), 16)
                ELSE IF Slice(text, 1, 2) = "&#" THEN int(Slice(text, 3, Len(text) - 1), 10)
                ELSE name2codepoint(Slice(text, 2, Len(text) - 1)))

\* The number of word characters of s from index i on.
RECURSIVE WordRun(_, _)
WordRun(s, i) == IF i <= Len(s) /\ IsWord(CharAt(s, i)) THEN 1 + WordRun(s, i + 1) ELSE 0

\* The length of the match of &#?\w+; at index i, 0 for no match.
EntityEnd(s, i, h, w) == IF w > 0 /\ CharAt(s, i + 1 + h + w) = ";" THEN h + w + 2 ELSE 0

EntityWord(s, i, h) == EntityEnd(s, i, h, WordRun(s, i + 1 + h))

EntityAt(s, i) ==
    IF CharAt(s, i) # "&" THEN 0
    ELSE EntityWord(s, i, IF CharAt(s, i + 1) = "#" /\ WordRun(s, i + 2) > 0 THEN 1 ELSE 0)

\* re.sub("&#?\w+;", fixup, text) from index i on: [raised, text]
RECURSIVE UnescapeFrom(_, _)
\* the text before the match, the substitute of the match and the rest
Substituted(before, head, rest) ==
    IF head.raised # "" THEN head
    ELSE IF rest.raised # "" THEN rest
    ELSE [raised |-> "", text |-> before \o head.text \o rest.text]

\* with the length n of the match at the ampersand at index j, 0 for none
UnescapeAt(s, i, j, n) ==
    Substituted(Slice(s, i, j - 1),
                IF n = 0 THEN [raised |-> "", text |-> "&"] ELSE fixup(SubSeq(s, j, j + n - 1)),
                UnescapeFrom(s, j + (IF n = 0 THEN 1 ELSE n)))

\* with the index j of the next ampersand, 0 for none
UnescapeNext(s, i, j) ==
    IF j = 0 THEN [raised |-> "", text |-> Slice(s, i, Len(s))]
    ELSE UnescapeAt(s, i, j, EntityAt(s, j))

UnescapeFrom(s, i) == UnescapeNext(s, i, FindFrom(s, "&", i))

unescape_html(text) == UnescapeFrom(text, 1)

(***************************************************************************)
(* JSON.  A decoded value is a record with its type: an object holds its   *)
(* members as <<key, value>> pairs in order, an array its items.           *)
(***************************************************************************)

JNull == [t |-> "null"]
JNum(n) == [t |-> "num", n |-> n]
JStr(s) == [t |-> "str", s |-> s]
JArr(items) == [t |-> "arr", items |-> items]
JObj(members) == [t |-> "obj", members |-> members]

\* str(n) for n >= 0
RECURSIVE IntStr(_)
IntStr(n) == IF n < 10 THEN CharAt(Digits, n + 1) ELSE IntStr(n \div 10) \o CharAt(Digits, (n % 10) + 1)

\* The text of a value as the server writes it.
RECURSIVE JsonText(_)
JsonText(v) ==
    CASE v.t = "null" -> "null"
      [] v.t = "num" -> IntStr(v.n)
      [] v.t = "str" -> "\"" \o v.s \o "\""
      [] v.t = "arr" -> "[" \o Join(", ", [i \in 1..Len(v.items) |-> JsonText(v.items[i])]) \o "]"
      [] v.t = "obj" -> "{" \o Join(", ", [i \in 1..Len(v.members) |->
                            "\"" \o v.members[i][1] \o "\": " \o JsonText(v.members[i][2])]) \o "}"

\* A body that is JSON: json.loads gives the value back.
JsonBody(v) == [raw |-> JsonText(v), xml |-> NoneV, json |-> Some(v)]

\* value[key] of Python for a string key: [raised, v].  Only a dict has
\* string keys; a list, a str, a number and None raise TypeError.
Member(hits) ==
    IF Len(hits) = 0 THEN [raised |-> "KeyError", v |-> JNull]
    ELSE [raised |-> "", v |-> hits[Len(hits)][2]]

Subscript(value, key) ==
    IF value.t # "obj" THEN [raised |-> "TypeError", v |-> JNull]
    ELSE Member(SelectSeq(value.members, LAMBDA m: m[1] = key))

MsgOf(e) == IF e.raised # "" THEN e ELSE Subscript(e.v, "msg")

\* json_data['error']['msg']
ErrorMsgOf(json_data) == MsgOf(Subscript(json_data, "error"))

\* The reason a msg member gives: its string, None for null; a number as
\* "%s" % reason prints it.
ReasonOf(v) ==
    CASE v.t = "str" -> Some(v.s)
      [] v.t = "null" -> NoneV
      [] OTHER -> Some(JsonText(v))

(***************************************************************************)
(* error_extractor.extract_error and make_error_msg                        *)
(***************************************************************************)

\* What extract_error returns or raises: [raised, reason, full_response],
\* and whether scrape_response was called.
Extracted(raised, reason, full_response, scraped) ==
    [raised |-> raised, reason |-> reason, full_response |-> full_response,
     scraped |-> scraped]

\* lines 108-110, the ValueError branch: the body is scraped and unescaped.
\* line 110
Unescaped(reason, un) ==
    IF un.raised # "" THEN Extracted(un.raised, NoneV, NoneV, TRUE)
    ELSE Extracted("", reason, Some(un.text), TRUE)

\* line 109, with what scrape_response gave
AfterScrape(sc) ==
    IF sc.raised # "" THEN Extracted(sc.raised, NoneV, NoneV, TRUE)
    ELSE Unescaped(sc.reason, unescape_html(sc.full_html))

ExtractFromMarkup(resp) == AfterScrape(scrape_response(resp.headers, resp.body))

\* lines 103-107, with what json_data['error']['msg'] gave
ExtractFromJson(resp, m) ==
    IF m.raised = "KeyError" THEN Extracted("", NoneV, Some(resp.content), FALSE)
    ELSE IF m.raised # "" THEN Extracted(m.raised, NoneV, NoneV, FALSE)
    ELSE Extracted("", ReasonOf(m.v), NoneV, FALSE)

\* extract_error(resp): resp.json() raises ValueError for a body that is no
\* JSON; KeyError is handled, every other exception leaves the function.
extract_error(resp) ==
    IF resp.body.json = NoneV THEN ExtractFromMarkup(resp)
    ELSE ExtractFromJson(resp, ErrorMsgOf(Val(resp.body.json)))

\* "%s" % value for a str or None
Fmt(o) == IF o = NoneV THEN "None" ELSE Val(o)

\* make_error_msg without the test of line 91: the detail is always appended.
make_error_msgWithDetail(reason, full_response) ==
    "[Reason: " \o Fmt(reason) \o "]" \o "\n" \o Fmt(full_response)

\* make_error_msg(reason, full_response)
make_error_msg(reason, full_response) ==
    LET msg == "[Reason: " \o Fmt(reason) \o "]"
    IN IF reason = NoneV THEN msg \o "\n" \o Fmt(full_response) ELSE msg

(***************************************************************************)
(* Requests.  A dict of Python is the sequence of its <<key, value>> items *)
(* in insertion order.                                                     *)
(***************************************************************************)

\* key in d
DictHas(d, key) == \E i \in 1..Len(d) : d[i][1] = key

\* d[key] for a key that is in d
DictGet(d, key) == d[CHOOSE i \in 1..Len(d) : d[i][1] = key][2]

\* d[key] = value
DictSet(d, key, value) ==
    IF \E i \in 1..Len(d) : d[i][1] = key
    THEN [i \in 1..Len(d) |-> IF d[i][1] = key THEN <<key, value>> ELSE d[i]]
    ELSE Append(d, <<key, value>>)

\* d.update(other)
RECURSIVE DictUpdate(_, _)
DictUpdate(d, other) ==
    IF Len(other) = 0 THEN d
    ELSE DictUpdate(DictSet(d, other[1][1], other[1][2]), Tail(other))

\* The characters urllib's quote_plus leaves as they are.
Unreserved == Digits \o LowerCase \o UpperCase \o "_.-~"

\* "%02X" % n for a byte
Hex2(n) ==
    CharAt("0123456789ABCDEF", (n \div 16) + 1) \o CharAt("0123456789ABCDEF", (n % 16) + 1)

\* ord(c) for the characters of the model
ord(c) ==
    CASE c = "\t" -> 9
      [] c = "\n" -> 10
      [] c = "\f" -> 12
      [] c = "\r" -> 13
      [] OTHER -> FindFrom(Ascii, c, 1) + 31

UnreservedChars == {CharAt(Unreserved, i) : i \in 1..Len(Unreserved)}

\* quote_plus of one character
QuoteChar(c) ==
    IF c \in UnreservedChars THEN c
    ELSE IF c = " " THEN "+"
    ELSE "%" \o Hex2(ord(c))

\* urllib.parse.quote_plus(s), by halves so that a long string is not deep
RECURSIVE quote_plus(_)
quote_plus(s) ==
    IF Len(s) = 0 THEN ""
    ELSE IF Len(s) = 1 THEN QuoteChar(s)
    ELSE quote_plus(SubSeq(s, 1, Len(s) \div 2)) \o quote_plus(SubSeq(s, (Len(s) \div 2) + 1, Len(s)))

\* urlencode(params, doseq=True) for string values
urlencode(params) ==
    Join("&", [i \in 1..Len(params) |->
                 quote_plus(params[i][1]) \o "=" \o quote_plus(params[i][2])])

\* utils.force_bytes and utils.force_unicode of a str: the characters of the
\* model are ASCII, which UTF-8 leaves as they are.
force_bytes(value) == value

force_unicode(value) == value

\* utils.sanitize: of the control characters it removes, a string of the
\* model can hold the form feed.
sanitize(data) == force_unicode(Replace(force_bytes(data), "\f", ""))

\* _create_full_url of a client that keeps the URL it was constructed with.
_create_full_urlFirstBase(base, path) ==
    IF Len(path) > 0
    THEN Join("/", <<"http://localhost:8983/solr/core0", LStripSet(path, {"/"})>>)
    ELSE "http://localhost:8983/solr/core0"

\* Solr._create_full_url
_create_full_url(base, path) ==
    IF Len(path) > 0
    THEN Join("/", <<RStripSet(base, {"/"}), LStripSet(path, {"/"})>>)
    ELSE base

\* What _send_request hands to session.request (lines 50-81): the method in
\* lower case, the full URL, the body as bytes and the content type header.
HttpRequest(base, method, path, body, content_type) ==
    [method |-> Lower(method),
     url |-> _create_full_url(base, path),
     data |-> IF body = NoneV THEN NoneV ELSE Some(force_bytes(Val(body))),
     content_type |-> content_type]

\* The length from which _select posts the parameters.
GetLimit == 1024

\* Solr._select: the request it sends.
\* _select with the comparison of line 120 written as <=.
SelectRequestInclusive(base, params_encoded, search_handler) ==
    IF Len(params_encoded) <= GetLimit
    THEN HttpRequest(base, "get", search_handler \o "/?" \o params_encoded, NoneV, NoneV)
    ELSE HttpRequest(base, "post", search_handler \o "/", Some(params_encoded),
                     Some("application/x-www-form-urlencoded; charset=utf-8"))

SelectRequest(base, params_encoded, search_handler) ==
    IF Len(params_encoded) < GetLimit
    THEN HttpRequest(base, "get", search_handler \o "/?" \o params_encoded, NoneV, NoneV)
    ELSE HttpRequest(base, "post", search_handler \o "/", Some(params_encoded),
                     Some("application/x-www-form-urlencoded; charset=utf-8"))

\* _select with line 117 written as params.setdefault('wt', 'json'): a wt of
\* the caller is kept.
_selectKeepsWt(base, params, search_handler) ==
    SelectRequest(base, urlencode(IF DictHas(params, "wt") THEN params
                                  ELSE DictSet(params, "wt", "json")), search_handler)

_select(base, params, search_handler) ==
    SelectRequest(base, urlencode(DictSet(params, "wt", "json")), search_handler)

\* Solr._suggest_terms
_suggest_terms(base, params) ==
    HttpRequest(base, "get", "terms/?" \o urlencode(DictSet(params, "wt", "json")), NoneV, NoneV)

\* _mlt with the length policy of _select.
_mltByLength(base, params) ==
    SelectRequest(base, urlencode(DictSet(params, "wt", "json")), "mlt")

\* Solr._mlt
_mlt(base, params) ==
    HttpRequest(base, "get", "mlt/?" \o urlencode(DictSet(params, "wt", "json")), NoneV, NoneV)

\* str(bool(flag)).lower() for a flag that is set
BoolStr(flag) == IF Val(flag) THEN "true" ELSE "false"

\* The keyword arguments of _update: each flag is NoneV, Some(TRUE) or
\* Some(FALSE).  These are the defaults of its signature.
UpdateDefaults ==
    [clean_ctrl_chars |-> TRUE, commit |-> Some(TRUE), softCommit |-> Some(FALSE),
     waitFlush |-> NoneV, waitSearcher |-> NoneV, overwrite |-> NoneV]

\* _update with line 196 written as a second if: both flags are rendered.
query_varsBoth(flags) ==
    (IF flags.commit # NoneV THEN <<"commit=" \o BoolStr(flags.commit)>> ELSE <<>>)
    \o (IF flags.softCommit # NoneV THEN <<"softCommit=" \o BoolStr(flags.softCommit)>>
        ELSE <<>>)
    \o (IF flags.waitFlush # NoneV THEN <<"waitFlush=" \o BoolStr(flags.waitFlush)>> ELSE <<>>)
    \o (IF flags.overwrite # NoneV THEN <<"overwrite=" \o BoolStr(flags.overwrite)>> ELSE <<>>)
    \o (IF flags.waitSearcher # NoneV THEN <<"waitSearcher=" \o BoolStr(flags.waitSearcher)>>
        ELSE <<>>)

\* lines 192-206
query_vars(flags) ==
    (IF flags.commit # NoneV THEN <<"commit=" \o BoolStr(flags.commit)>>
     ELSE IF flags.softCommit # NoneV THEN <<"softCommit=" \o BoolStr(flags.softCommit)>>
     ELSE <<>>)
    \o (IF flags.waitFlush # NoneV THEN <<"waitFlush=" \o BoolStr(flags.waitFlush)>> ELSE <<>>)
    \o (IF flags.overwrite # NoneV THEN <<"overwrite=" \o BoolStr(flags.overwrite)>> ELSE <<>>)
    \o (IF flags.waitSearcher # NoneV THEN <<"waitSearcher=" \o BoolStr(flags.waitSearcher)>>
        ELSE <<>>)

\* Solr._update: the request it sends.
UpdatePath(vars_) ==
    IF Len(vars_) > 0 THEN "update/" \o "?" \o Join("&", vars_) ELSE "update/"

_update(base, message, flags) ==
    HttpRequest(base, "post", UpdatePath(query_vars(flags)),
                Some(IF flags.clean_ctrl_chars THEN sanitize(message) ELSE message),
                Some("text/xml; charset=utf-8"))

\* Solr.delete without the check of line 471: id wins when both are given.
DeleteMessagePreferId(id, q) ==
    IF id = NoneV /\ q = NoneV
    THEN [raised |-> "ValueError", text |-> "You must specify \"id\" or \"q\"."]
    ELSE IF id # NoneV
    THEN [raised |-> "", text |-> "<delete><id>" \o Val(id) \o "</id></delete>"]
    ELSE [raised |-> "", text |-> "<delete><query>" \o Val(q) \o "</query></delete>"]

\* lines 469-476 of Solr.delete: the exception it raises ("" for none) and
\* the message it builds.
DeleteMessage(id, q) ==
    IF id = NoneV /\ q = NoneV
    THEN [raised |-> "ValueError", text |-> "You must specify \"id\" or \"q\"."]
    ELSE IF id # NoneV /\ q # NoneV
    THEN [raised |-> "ValueError", text |-> "You many only specify \"id\" OR \"q\", not both."]
    ELSE IF id # NoneV
    THEN [raised |-> "", text |-> "<delete><id>" \o Val(id) \o "</id></delete>"]
    ELSE [raised |-> "", text |-> "<delete><query>" \o Val(q) \o "</query></delete>"]

\* lines 410-413 of Solr.commit
CommitMessage(expungeDeletes) ==
    IF expungeDeletes # NoneV
    THEN "<commit expungeDeletes=\"" \o BoolStr(expungeDeletes) \o "\" />"
    ELSE "<commit />"

\* lines 439-442 of Solr.optimize: maxSegments is a number, 0 for not given
OptimizeMessage(maxSegments) ==
    IF maxSegments # 0
    THEN "<optimize maxSegments=\"" \o IntStr(maxSegments) \o "\" />"
    ELSE "<optimize />"

(***************************************************************************)
(* utils.is_null_value, utils.from_python and Solr._build_doc.  A value of *)
(* Python is a record with its type, as a decoded JSON value is; a bool, a *)
(* tuple and a bytes object are values JSON does not have.                 *)
(***************************************************************************)

JBool(b) == [t |-> "bool", b |-> b]
PyTuple(items) == [t |-> "tuple", items |-> items]
PyBytes(s) == [t |-> "bytes", s |-> s]

\* The truth value of a value: None, 0, False and what is empty are false.
Truth(value) ==
    CASE value.t = "null" -> FALSE
      [] value.t \in {"str", "bytes"} -> Len(value.s) > 0
      [] value.t = "num" -> value.n # 0
      [] value.t = "bool" -> value.b
      [] value.t \in {"arr", "tuple"} -> Len(value.items) > 0
      [] OTHER -> Len(value.members) > 0

\* is_null_value written as a test of falsiness: 0, False and the empty
\* sequences are null too.
is_null_valueFalsy(value) == ~Truth(value)

\* utils.is_null_value(value)
is_null_value(value) ==
    IF value.t = "null" THEN TRUE
    ELSE IF value.t = "str" /\ Len(value.s) = 0 THEN TRUE
    ELSE FALSE

\* str(value) for the scalars of the model (utils.force_unicode of a value
\* that is no str: bytes are decoded, the others printed).
str(value) ==
    CASE value.t = "null" -> "None"
      [] value.t = "bool" -> IF value.b THEN "True" ELSE "False"
      [] value.t = "num" -> IntStr(value.n)
      [] value.t \in {"str", "bytes"} -> value.s
      [] OTHER -> JsonText(value)

\* utils.clean_xml_string: of the characters XML does not allow, a string
\* of the model can hold the form feed.
clean_xml_string(s) == Replace(s, "\f", "")

\* utils.from_python(value) for the values of the model's documents (no
\* dates): a bool in lower case, bytes decoded, the rest as format() prints it.
from_python(value) ==
    clean_xml_string(IF value.t = "bool" THEN (IF value.b THEN "true" ELSE "false")
                     ELSE str(value))

\* ElementTree.Element(tag, **attrib): the attributes are a dict.
Element(tag, attrib) == [tag |-> tag, attrib |-> attrib, text |-> NoneV, kids |-> <<>>]

\* The truth value of a dict-or-None argument.
NotEmpty(d) == d # NoneV /\ Len(Val(d)) > 0

\* The attributes with line 168 written as a test of the boost itself: a
\* boost of 0 is left out.
FieldAttrsBoostTruthy(key, boost, fieldUpdates) ==
    <<<<"name", key>>>>
        \o (IF NotEmpty(fieldUpdates) /\ DictHas(Val(fieldUpdates), key)
            THEN <<<<"update", DictGet(Val(fieldUpdates), key)>>>> ELSE <<>>)
        \o (IF NotEmpty(boost) /\ DictHas(Val(boost), key) /\ Truth(DictGet(Val(boost), key))
            THEN <<<<"boost", str(DictGet(Val(boost), key))>>>> ELSE <<>>)

\* lines 162-171: the field element of one value.
FieldAttrs(key, boost, fieldUpdates) ==
    <<<<"name", key>>>>
        \o (IF NotEmpty(fieldUpdates) /\ DictHas(Val(fieldUpdates), key)
            THEN <<<<"update", DictGet(Val(fieldUpdates), key)>>>> ELSE <<>>)
        \o (IF NotEmpty(boost) /\ DictHas(Val(boost), key)
            THEN <<<<"boost", str(DictGet(Val(boost), key))>>>> ELSE <<>>)

Field(key, bit, boost, fieldUpdates) ==
    [Element("field", FieldAttrs(key, boost, fieldUpdates)) EXCEPT
        !.text = Some(from_python(bit))]

\* lines 158-173: the field elements of the values of one key, the null
\* ones left out.
RECURSIVE Fields(_, _, _, _)
Fields(key, values, boost, fieldUpdates) ==
    IF Len(values) = 0 THEN <<>>
    ELSE (IF is_null_value(values[1]) THEN <<>>
          ELSE <<Field(key, values[1], boost, fieldUpdates)>>)
            \o Fields(key, Tail(values), boost, fieldUpdates)

\* lines 153-156: a list or a tuple gives its elements, another value itself.
ValuesOf(value) == IF value.t \in {"arr", "tuple"} THEN value.items ELSE <<value>>

\* The loop body without the branch of lines 148-150 for a null boost: the
\* document boost is treated as a field value is.
DocItemNullBoostDropped(doc_elem, key, value, boost, fieldUpdates) ==
    IF key = "boost" /\ is_null_value(value) THEN doc_elem
    ELSE IF key = "boost"
    THEN [doc_elem EXCEPT !.attrib = DictSet(@, "boost", str(value))]
    ELSE [doc_elem EXCEPT !.kids = @ \o Fields(key, ValuesOf(value), boost, fieldUpdates)]

\* lines 148-173: the body of the loop over the items of the document.
DocItem(doc_elem, key, value, boost, fieldUpdates) ==
    IF key = "boost"
    THEN [doc_elem EXCEPT !.attrib = DictSet(@, "boost", str(value))]
    ELSE [doc_elem EXCEPT !.kids = @ \o Fields(key, ValuesOf(value), boost, fieldUpdates)]

\* lines 147-175: the loop, from item i of the document on.
RECURSIVE DocItems(_, _, _, _, _)
DocItems(doc_elem, doc, i, boost, fieldUpdates) ==
    IF i > Len(doc) THEN doc_elem
    ELSE DocItems(DocItem(doc_elem, doc[i][1], doc[i][2], boost, fieldUpdates),
                  doc, i + 1, boost, fieldUpdates)

\* Solr._build_doc(doc, boost, fieldUpdates)
_build_doc(doc, boost, fieldUpdates) == DocItems(Element("doc", <<>>), doc, 1, boost, fieldUpdates)

\* ElementTree.tostring(message, encoding='utf-8') for the add message: an
\* attribute value has the quote escaped too, an element without text and
\* children is written "<tag />", and there is no declaration for utf-8.
AttrEscape(s) == Replace(XmlEscape(s), "\"", "&quot;")

AttrsText(attrib) ==
    Join("", [i \in 1..Len(attrib) |->
                " " \o attrib[i][1] \o "=\"" \o AttrEscape(attrib[i][2]) \o "\""])

ElementText(e, inner) ==
    IF e.text \in {NoneV, Some("")} /\ Len(e.kids) = 0
    THEN "<" \o e.tag \o AttrsText(e.attrib) \o " />"
    ELSE "<" \o e.tag \o AttrsText(e.attrib) \o ">" \o TextOf(e.text) \o inner
            \o "</" \o e.tag \o ">"

DocText(d) == ElementText(d, Join("", [i \in 1..Len(d.kids) |-> ElementText(d.kids[i], "")]))

AddText(a) == ElementText(a, Join("", [i \in 1..Len(a.kids) |-> DocText(a.kids[i])]))

\* lines 375-384 of Solr.add: the message of the documents.
AddMessage(docs, boost, fieldUpdates, commitWithin) ==
    force_unicode(AddText(
        [Element("add", IF Truthy(commitWithin) THEN <<<<"commitWithin", Val(commitWithin)>>>>
                        ELSE <<>>)
            EXCEPT !.kids = [i \in 1..Len(docs) |-> _build_doc(docs[i], boost, fieldUpdates)]]))

(***************************************************************************)
(* result_cls.Results.  The object is a record of its attributes; making   *)
(* it gives [raised, self].                                                *)
(***************************************************************************)

\* d.get(key, default) of a dict
Get(d, key, default) == IF DictHas(d.members, key) THEN DictGet(d.members, key) ELSE default

\* a or b
Or(a, b) == IF Truth(a) THEN a ELSE b

\* lines 55-66, with the response part and the response header at hand:
\* .get() of a value that is no dict raises AttributeError.
ResultsOf(decoded, response_part, header) ==
    IF response_part.t # "obj" \/ header.t # "obj"
    THEN [raised |-> "AttributeError", self |-> NoneV]
    ELSE [raised |-> "",
          self |-> Some([docs |-> Get(response_part, "docs", PyTuple(<<>>)),
                         hits |-> Get(response_part, "numFound", JNum(0)),
                         debug |-> Get(decoded, "debug", JObj(<<>>)),
                         highlighting |-> Get(decoded, "highlighting", JObj(<<>>)),
                         facets |-> Get(decoded, "facet_counts", JObj(<<>>)),
                         spellcheck |-> Get(decoded, "spellcheck", JObj(<<>>)),
                         stats |-> Get(decoded, "stats", JObj(<<>>)),
                         qtime |-> Get(header, "QTime", JNull),
                         grouped |-> Get(decoded, "grouped", JObj(<<>>)),
                         nextCursorMark |-> Get(decoded, "nextCursorMark", JNull)])]

\* Results.__init__ with line 54 written as decoded.get('response', {}): a
\* response of null is not replaced.
ResultsNullKept(decoded) ==
    ResultsOf(decoded, Get(decoded, "response", JObj(<<>>)),
              Get(decoded, "responseHeader", JObj(<<>>)))

\* Results.__init__(decoded)
Results(decoded) ==
    ResultsOf(decoded, Or(Get(decoded, "response", JNull), JObj(<<>>)),
              Get(decoded, "responseHeader", JObj(<<>>)))

\* Results.__len__
__len__(self) == Len(self.docs.items)

\* An iterator of a sequence is a record: how many items it has yielded,
\* the items, and whether it has raised StopIteration.
\* __iter__ with one iterator kept by the object: a traversal goes on where
\* the one before it is.
__iter__Shared(self, made) ==
    IF Len(made) = 0 THEN [pos |-> 0, yielded |-> <<>>, done |-> FALSE]
    ELSE [pos |-> made[Len(made)].pos, yielded |-> <<>>, done |-> made[Len(made)].done]

\* Results.__iter__: iter(self.docs), a new iterator at the start (made are
\* the iterators made before).
__iter__(self, made) == [pos |-> 0, yielded |-> <<>>, done |-> FALSE]

\* next(it) for an iterator of self.docs
__next__(self, it) ==
    IF it.done \/ it.pos >= Len(self.docs.items) THEN [it EXCEPT !.done = TRUE]
    ELSE [it EXCEPT !.pos = @ + 1, !.yielded = Append(@, self.docs.items[it.pos + 1])]

(***************************************************************************)
(* Failures.  An exception is a record of its class and its text; the      *)
(* classes are those of aiohttp.errors, and asyncio.TimeoutError, which    *)
(* the aiohttp.Timeout block raises when its deadline passes.              *)
(***************************************************************************)

\* The classes an exception of a class is an instance of.
Bases(cls) ==
    CASE cls = "ClientTimeoutError" ->
            {"ClientTimeoutError", "ClientConnectionError", "ClientError", "TimeoutError"}
      [] cls = "ClientOSError" ->
            {"ClientOSError", "ClientConnectionError", "ClientError", "OSError"}
      [] cls = "ClientConnectionError" -> {"ClientConnectionError", "ClientError"}
      [] cls = "ClientResponseError" ->
            {"ClientResponseError", "ClientHttpProcessingError", "ClientError"}
      [] OTHER -> {cls}

IsInstance(exc, cls) == cls \in Bases(exc.cls)

\* What a call ends with: a returned value or a raised exception.  A
\* SolrError has the category of the place that raised it.
NoOutcome == [kind |-> "none", cls |-> "", category |-> "", message |-> "", value |-> ""]

Returned(value) ==
    [kind |-> "return", cls |-> "", category |-> "", message |-> "", value |-> value]

Raised(cls, category, message) ==
    [kind |-> "raise", cls |-> cls, category |-> category, message |-> message, value |-> ""]

\* lines 82-94: the except clauses of _send_request in their order; an
\* exception none of them names leaves _send_request as it is.
HandleTransportError(req, err) ==
    IF IsInstance(err, "ClientTimeoutError")
    THEN Raised("SolrError", "Timeout",
                "Connection to server '" \o req.url \o "' timed out: " \o err.text)
    ELSE IF IsInstance(err, "ClientConnectionError")
    THEN Raised("SolrError", "Connection",
                "Failed to connect to server at '" \o req.url
                    \o "', are you sure that URL is correct? Checking it in a browser might help: "
                    \o err.text)
    ELSE IF IsInstance(err, "ClientError")
    THEN Raised("SolrError", "Generic",
                "Unhandled error: " \o req.method \o " " \o req.url \o ": " \o err.text)
    ELSE Raised(err.cls, "", err.text)

\* lines 101-110: the error of a response whose status is not 200.
StatusError(status, reason, full_response) ==
    Raised("SolrError", "Status",
           "Solr responded with an error (HTTP " \o IntStr(status) \o "): "
               \o make_error_msg(reason, full_response))

\* self.decoder.decode(response) and the .get() that follows it in search,
\* more_like_this and suggest_terms: ValueError for a text that is no JSON,
\* AttributeError for a value that is no object.
Decoded(body) ==
    IF body.json = NoneV THEN Raised("ValueError", "", "Expecting value")
    ELSE IF Val(body.json).t # "obj"
    THEN Raised("AttributeError", "", "object has no attribute 'get'")
    ELSE Returned(force_unicode(body.raw))

(***************************************************************************)
(* The inputs of the model.                                                *)
(***************************************************************************)

\* self.timeout in ticks of the model's clock, and how many ticks past the
\* deadline the clock runs.
Timeout == 1

MaxOverrun == 1

Leaf(tag, name, text) == El(tag, name, text, <<>>, NoneV)

\* A node of an error response: <<>> for no node, <<text>> for a node whose
\* text is text (NoneV for an empty node).
StrNode(name, node) == IF node = <<>> THEN <<>> ELSE <<Leaf("str", Some(name), node[1])>>

\* Solr's XML error response, with an h1 element in it or not.
ErrorTree(msg, trace, h1) ==
    El("response", NoneV, Some("\n"),
       <<El("lst", Some("responseHeader"), NoneV,
            <<Leaf("int", Some("status"), Some("400"))>>, NoneV),
         El("lst", Some("error"), NoneV,
            StrNode("msg", msg) \o StrNode("trace", trace)
                \o (IF h1 THEN <<Leaf("h1", NoneV, Some("Oops"))>> ELSE <<>>)
                \o <<Leaf("int", Some("code"), Some("400"))>>,
            Some("\n"))>>,
       NoneV)

MsgNodes == {<<>>, <<NoneV>>, <<Some(" ")>>, <<Some("Invalid Date String")>>,
             <<Some(" Internal Server Error\n")>>}

TraceNodes == {<<>>, <<NoneV>>, <<Some("  ")>>,
               <<Some("org.apache.solr.common.SolrException\n at java.lang.Thread.run\n")>>}

ErrorTrees == {ErrorTree(m, t, h) : m \in MsgNodes, t \in TraceNodes, h \in BOOLEAN}

\* The error pages of the servers.
JettyPage ==
    El("html", NoneV, NoneV,
       <<El("body", NoneV, NoneV, <<Leaf("pre", NoneV, Some("Something is broke."))>>, NoneV)>>,
       NoneV)

TitlePage ==
    El("html", NoneV, NoneV,
       <<El("head", NoneV, NoneV, <<Leaf("title", NoneV, Some("Wow. Seriously weird."))>>, NoneV),
         El("body", NoneV, NoneV, <<Leaf("pre", NoneV, Some("Something is broke."))>>, NoneV)>>,
       NoneV)

TomcatPage ==
    El("html", NoneV, NoneV,
       <<El("body", NoneV, NoneV,
            <<Leaf("h1", NoneV, Some(" Something broke! ")),
              Leaf("pre", NoneV, Some("gigantic stack trace"))>>, NoneV)>>,
       NoneV)

EmptyPage == El("html", NoneV, NoneV, <<El("body", NoneV, NoneV, <<>>, NoneV)>>, NoneV)

Pages == {JettyPage, TitlePage, TomcatPage, EmptyPage}

\* Bodies that are neither well-formed markup nor JSON.
Texts == {"We don't care.", "", "<h1>HTTP Status 500</h1><hr>",
          "Error &#99999999999; &amp; more", " line 1<br/>\r\nline &#38; 2 ",
          "&#32;Broken&#x0a;pipe&#13;"}

\* Bodies that start with the declaration and are cut off: with line breaks
\* of both kinds and break tags, with a heading, with a heading left open.
BrokenXml ==
    {XmlDeclaration \o "<response>\r\n<str name=\"msg\">Invalid<br/>Date<br />String</str> \n",
     XmlDeclaration \o "<response>\n<h1> Oops </h1>\n",
     XmlDeclaration \o "<response>\n<H1>Oops"}

\* JSON error bodies, of the expected shape and of others.
JsonErrors ==
    {JObj(<<<<"error", JObj(<<<<"msg", JStr("It happens")>>>>)>>>>),
     JObj(<<<<"error", JObj(<<<<"msg", JNull>>>>)>>>>),
     JObj(<<<<"error", JObj(<<<<"code", JNum(400)>>>>)>>>>),
     JObj(<<<<"kinda", JStr("weird")>>>>),
     JObj(<<<<"error", JStr("weird")>>>>),
     JObj(<<<<"error", JNull>>>>),
     JArr(<<JNum(1)>>),
     JStr("oops"),
     JNull}

\* The bodies scrape_response is given.
MarkupBodies ==
    {XmlBody(d, t, w) : d \in BOOLEAN, t \in ErrorTrees \cup Pages, w \in BOOLEAN}
        \cup {TextBody(t) : t \in Texts \cup BrokenXml}

\* The headers of a response: the server and reason headers, NoneV when
\* the response has none.
Servers == {NoneV, Some("Jetty(9.2.z-SNAPSHOT)"), Some("Apache-Coyote/1.1"), Some("crapzilla")}

\* The headers scrape_response is given.
HeaderSets == {[server |-> sv, reason |-> NoneV] : sv \in Servers}

\* The bodies of the responses of the request pipeline: with status 200 ...
OkBodies ==
    {JsonBody(JObj(<<<<"response", JObj(<<<<"numFound", JNum(3)>>>>)>>>>)),
     JsonBody(JArr(<<>>)),
     TextBody("<int name=\"status\">0</int>")}

\* ... and with another status: markup and text, which the server type
\* matters for ...
ErrorMarkup ==
    {XmlBody(TRUE, ErrorTree(m, t, FALSE), TRUE) :
        m \in {<<NoneV>>, <<Some("Invalid Date String")>>}, t \in {<<>>, <<Some("  ")>>}}
        \cup {XmlBody(FALSE, JettyPage, TRUE), XmlBody(FALSE, TomcatPage, TRUE)}
        \cup {TextBody(t) : t \in Texts \ {""}}

\* ... and JSON.
ErrorJson == {JsonBody(v) : v \in JsonErrors}

\* What "%s" prints for the content attribute of a response of aiohttp: the
\* attribute is the stream the payload is read from, not the payload.
PayloadStream == "<aiohttp.streams.FlowControlStreamReader object>"

\* A response of session.request.
Response(status, server, reason, body) ==
    [status |-> status, headers |-> [server |-> server, reason |-> reason], body |-> body,
     content |-> PayloadStream]

Responses ==
    {Response(200, NoneV, NoneV, b) : b \in OkBodies}
        \cup {Response(st, NoneV, Some("Bad Request"), TextBody("We don't care.")) :
                st \in {201, 500}}
        \cup {Response(500, NoneV, NoneV, b) : b \in ErrorJson}
        \cup {Response(500, sv, NoneV, b) : sv \in Servers \ {Some("crapzilla")}, b \in ErrorMarkup}
        \cup {Response(201, Some("crapzilla"), NoneV, b) :
                b \in {TextBody(""), JsonBody(JArr(<<JNum(1)>>)),
                       JsonBody(JObj(<<<<"error", JObj(<<<<"msg", JStr("It happens")>>>>)>>>>))}}

\* The exceptions session.request raises.
TransportErrors ==
    {[cls |-> c, text |-> "boom"] :
        c \in {"ClientTimeoutError", "ClientOSError", "ClientConnectionError",
               "ClientResponseError", "ClientError"}}

\* The exceptions a read of the body raises.
ReadErrors == {[cls |-> c, text |-> "boom"] : c \in {"ClientOSError", "ClientResponseError"}}

\* asyncio.TimeoutError, raised on leaving the aiohttp.Timeout block whose
\* deadline passed.
DeadlineError == [cls |-> "TimeoutError", text |-> ""]

\* The base URLs of the client.
BaseUrls == {"http://localhost:8983/solr/core0", "http://localhost:8983/solr/core0/"}

\* The queries: short ones, and ones whose encoded parameters are just
\* below, at and above GetLimit ("q=" and "&wt=json" are 10 characters, an
\* ampersand is 3 when encoded).
Queries ==
    {"*:*", Rep("a", GetLimit - 11), Rep("a", GetLimit - 10), Rep("&", (GetLimit - 10) \div 3)}

\* The keyword arguments of the read operations: none, and a wt of the
\* caller's own before another one.
KwargSets == {<<>>, <<<<"wt", "xml">>, <<"rows", "2">>>>}

(***************************************************************************)
(* The client.                                                             *)
(***************************************************************************)

VARIABLES
    url,        \* self.url
    pc,         \* where the call in progress is suspended
    call,       \* the public operation in progress and its arguments
    sent,       \* the requests handed to session.request during the call
    resp,       \* the response whose headers have arrived, NoneV before
    clock,      \* ticks since the aiohttp.Timeout block was entered
    fault,      \* the exception the transport raised during the call
    outcome,    \* what the call returned or raised
    extracted,  \* what extract_error returned or raised during the call, NoneV before
    scrape,     \* a call of scrape_response: its arguments and its result
    session,    \* self.session: "open" or "closed"
    closed,     \* close() has been called on the client
    helper,     \* a call of a helper: its arguments, its locals and its result
    results,    \* a Results object, NoneV before it is constructed
    iters,      \* the iterators made of the Results object, in the order they were made
    engine      \* the search engine the requests go to: what it holds and what it served

vars == <<url, pc, call, sent, resp, clock, fault, outcome, extracted, scrape,
          session, closed, helper, results, iters, engine>>

NoFault == [cls |-> "", text |-> ""]

\* An engine without documents that has served nothing; reply is the
\* response it has ready for the request in flight.
NoEngine == [pending |-> {}, visible |-> {}, reply |-> NoneV, served |-> <<>>]

\* The places a call is suspended at: session.request (line 80), resp.json()
\* and resp.read() of extract_error (lines 101, 108), resp.text() (line 112).
Waiting == {"request", "json", "read", "text"}

Init ==
    /\ url \in BaseUrls
    /\ pc = "idle"
    /\ call = [op |-> "none"]
    /\ sent = <<>>
    /\ resp = NoneV
    /\ clock = 0
    /\ fault = NoFault
    /\ outcome = NoOutcome
    /\ extracted = NoneV
    /\ scrape = NoneV
    /\ session = "open"
    /\ closed = FALSE
    /\ helper = NoneV
    /\ results = NoneV
    /\ iters = <<>>
    /\ engine = NoEngine

\* The call ends.
Finish(result) ==
    /\ pc' = "done"
    /\ outcome' = result

\* What ClientSession.request raises, before anything is awaited, when the
\* session has been closed.
SessionClosedError == [cls |-> "RuntimeError", text |-> "Session is closed"]

\* A call reaches line 80 of _send_request with the request it built.  The
\* request of an open session is awaited; a closed session raises at once,
\* and the except clauses of lines 82-94 let its RuntimeError through.
Dispatch(c, req) ==
    /\ pc = "idle"
    /\ call' = c
    /\ sent' = Append(sent, req)
    /\ clock' = 0
    /\ IF session = "closed"
       THEN Finish(HandleTransportError(req, SessionClosedError))
       ELSE pc' = "request" /\ UNCHANGED outcome
    /\ UNCHANGED <<url, resp, fault, extracted, scrape,
                   session, closed, helper, results, iters, engine>>

\* close() that leaves the session as it is.
closeKeepsSession(s) == s

\* Solr.close (lines 548-549): self.session.close(); the session is closed
\* from then on, whatever it was.
close(s) == "closed"

\* close() is called on the client, between calls or while one is suspended.
Close ==
    /\ closed' = TRUE
    /\ session' = close(session)
    /\ UNCHANGED <<url, pc, call, sent, resp, clock, fault, outcome, extracted, scrape,
                   helper, results, iters, engine>>

\* A call raises before it has built a request.
Reject(c, exc) ==
    /\ pc = "idle"
    /\ call' = c
    /\ pc' = "done"
    /\ outcome' = exc
    /\ UNCHANGED <<url, sent, resp, clock, fault, extracted, scrape,
                   session, closed, helper, results, iters, engine>>

search(q, search_handler, kwargs) ==
    Dispatch([op |-> "search", q |-> q, search_handler |-> search_handler, kwargs |-> kwargs],
             _select(url, DictUpdate(<<<<"q", q>>>>, kwargs), search_handler))

more_like_this(q, mltfl, kwargs) ==
    Dispatch([op |-> "more_like_this", q |-> q, mltfl |-> mltfl, kwargs |-> kwargs],
             _mlt(url, DictUpdate(<<<<"q", q>>, <<"mlt.fl", mltfl>>>>, kwargs)))

suggest_terms(fields, prefix, kwargs) ==
    Dispatch([op |-> "suggest_terms", fields |-> fields, prefix |-> prefix, kwargs |-> kwargs],
             _suggest_terms(url, DictUpdate(<<<<"terms.fl", fields>>, <<"terms.prefix", prefix>>>>,
                                            kwargs)))

\* Solr.delete(id, q, commit, waitFlush, waitSearcher)
Delete(c, m) ==
    IF m.raised # ""
    THEN Reject(c, Raised(m.raised, "", m.text))
    ELSE Dispatch(c, _update(url, m.text,
                             [UpdateDefaults EXCEPT !.commit = c.flags.commit,
                                                    !.waitFlush = c.flags.waitFlush,
                                                    !.waitSearcher = c.flags.waitSearcher]))

delete(id, q, flags) ==
    Delete([op |-> "delete", id |-> id, q |-> q, flags |-> flags], DeleteMessage(id, q))

\* Solr.add(docs, boost, fieldUpdates, commit, softCommit, commitWithin,
\* waitFlush, waitSearcher, overwrite)
add(docs, boost, fieldUpdates, flags, commitWithin) ==
    Dispatch([op |-> "add", docs |-> docs, boost |-> boost, fieldUpdates |-> fieldUpdates,
              flags |-> flags, commitWithin |-> commitWithin],
             _update(url, AddMessage(docs, boost, fieldUpdates, commitWithin),
                     [UpdateDefaults EXCEPT !.commit = flags.commit,
                                            !.softCommit = flags.softCommit,
                                            !.waitFlush = flags.waitFlush,
                                            !.waitSearcher = flags.waitSearcher,
                                            !.overwrite = flags.overwrite]))

\* commit that passes commit=None on to _update.
commitWithoutCommit(flags, expungeDeletes) ==
    Dispatch([op |-> "commit", flags |-> flags, expungeDeletes |-> expungeDeletes],
             _update(url, CommitMessage(expungeDeletes),
                     [UpdateDefaults EXCEPT !.commit = NoneV,
                                            !.softCommit = flags.softCommit,
                                            !.waitFlush = flags.waitFlush,
                                            !.waitSearcher = flags.waitSearcher]))

\* Solr.commit(softCommit, waitFlush, waitSearcher, expungeDeletes)
commit(flags, expungeDeletes) ==
    Dispatch([op |-> "commit", flags |-> flags, expungeDeletes |-> expungeDeletes],
             _update(url, CommitMessage(expungeDeletes),
                     [UpdateDefaults EXCEPT !.softCommit = flags.softCommit,
                                            !.waitFlush = flags.waitFlush,
                                            !.waitSearcher = flags.waitSearcher]))

\* Solr.optimize(waitFlush, waitSearcher, maxSegments)
optimize(flags, maxSegments) ==
    Dispatch([op |-> "optimize", flags |-> flags, maxSegments |-> maxSegments],
             _update(url, OptimizeMessage(maxSegments),
                     [UpdateDefaults EXCEPT !.waitFlush = flags.waitFlush,
                                            !.waitSearcher = flags.waitSearcher]))

\* Time passes while the call is suspended.  Inside the aiohttp.Timeout
\* block (line 79) the deadline ends the wait; the reads of the body (lines
\* 105 and 112) are outside the block.
Tick ==
    /\ pc \in Waiting
    /\ pc = "request" => clock < Timeout
    /\ clock < Timeout + MaxOverrun
    /\ clock' = clock + 1
    /\ UNCHANGED <<url, pc, call, sent, resp, fault, outcome, extracted, scrape,
                   session, closed, helper, results, iters, engine>>

\* _send_request with a retry: a failed request is issued once more.
RequestFailsRetry(err) ==
    /\ pc = "request"
    /\ fault' = err
    /\ sent' = Append(sent, sent[Len(sent)])
    /\ clock' = 0
    /\ UNCHANGED <<url, pc, call, resp, outcome, extracted, scrape,
                   session, closed, helper, results, iters, engine>>

\* session.request raises (lines 80-94).
RequestFails(err) ==
    /\ pc = "request"
    /\ fault' = err
    /\ Finish(HandleTransportError(sent[Len(sent)], err))
    /\ UNCHANGED <<url, call, sent, resp, clock, extracted, scrape,
                   session, closed, helper, results, iters, engine>>

\* The deadline of the aiohttp.Timeout block passes while session.request is
\* awaited: the block raises asyncio.TimeoutError into the except clauses.
DeadlinePasses ==
    /\ pc = "request"
    /\ clock >= Timeout
    /\ fault' = DeadlineError
    /\ Finish(HandleTransportError(sent[Len(sent)], DeadlineError))
    /\ UNCHANGED <<url, call, sent, resp, clock, extracted, scrape,
                   session, closed, helper, results, iters, engine>>

\* The headers arrive, and extract_error is called for every status that is
\* not 200, with a reason header or without.
HeadersArriveAlwaysExtracts(r) ==
    /\ pc = "request"
    /\ clock < Timeout
    /\ resp' = Some(r)
    /\ pc' = IF r.status # 200 THEN "json" ELSE "text"
    /\ UNCHANGED <<url, call, sent, clock, fault, outcome, extracted, scrape,
                   session, closed, helper, results, iters, engine>>

\* The headers arrive (lines 96-105): a status that is not 200 raises at
\* once when there is a reason header and goes on to extract_error when
\* there is none; status 200 goes on to resp.text().
HeadersArrive(r) ==
    /\ pc = "request"
    /\ clock < Timeout
    /\ resp' = Some(r)
    /\ IF r.status # 200 /\ r.headers.reason # NoneV
       THEN Finish(StatusError(r.status, r.headers.reason, NoneV))
       ELSE /\ pc' = IF r.status # 200 THEN "json" ELSE "text"
            /\ UNCHANGED outcome
    /\ UNCHANGED <<url, call, sent, clock, fault, extracted, scrape,
                   session, closed, helper, results, iters, engine>>

\* What _send_request raises once extract_error is through (lines 105-110).
ExtractedError(status, e) ==
    IF e.raised # "" THEN Raised(e.raised, "", "")
    ELSE StatusError(status, e.reason, e.full_response)

\* extract_error is through with e (line 105) and _send_request raises.
AfterExtract(e) ==
    /\ extracted' = Some(e)
    /\ Finish(ExtractedError(Val(resp).status, e))

\* resp.json() of extract_error completes (lines 101-105): a body that is no
\* JSON goes on to resp.read().
JsonRead ==
    /\ pc = "json"
    /\ IF Val(resp).body.json = NoneV
       THEN pc' = "read" /\ UNCHANGED <<outcome, extracted>>
       ELSE AfterExtract(extract_error(Val(resp)))
    /\ UNCHANGED <<url, call, sent, resp, clock, fault, scrape,
                   session, closed, helper, results, iters, engine>>

\* resp.read() of extract_error completes (lines 108-110).
BodyRead ==
    /\ pc = "read"
    /\ AfterExtract(extract_error(Val(resp)))
    /\ UNCHANGED <<url, call, sent, resp, clock, fault, scrape,
                   session, closed, helper, results, iters, engine>>

\* resp.text() completes (lines 112-113) and the operation goes on with the
\* text: the read operations decode it, the others return it.
TextRead ==
    /\ pc = "text"
    /\ Finish(IF call.op \in {"search", "more_like_this", "suggest_terms"}
              THEN Decoded(Val(resp).body)
              ELSE Returned(force_unicode(Val(resp).body.raw)))
    /\ UNCHANGED <<url, call, sent, resp, clock, fault, extracted, scrape,
                   session, closed, helper, results, iters, engine>>

\* A read of the body raises: lines 105 and 112 are outside the try block.
ReadFails(err) ==
    /\ pc \in {"json", "read", "text"}
    /\ fault' = err
    /\ Finish(Raised(err.cls, "", err.text))
    /\ UNCHANGED <<url, call, sent, resp, clock, extracted, scrape,
                   session, closed, helper, results, iters, engine>>

\* The caller has the outcome; the client is ready for the next call.
Return ==
    /\ pc = "done"
    /\ pc' = "idle"
    /\ call' = [op |-> "none"]
    /\ sent' = <<>>
    /\ resp' = NoneV
    /\ clock' = 0
    /\ fault' = NoFault
    /\ outcome' = NoOutcome
    /\ extracted' = NoneV
    /\ UNCHANGED <<url, scrape, session, closed, helper, results, iters, engine>>

\* The flags the callers of the model pass to delete, commit and optimize.
CallFlags ==
    {[commit |-> Some(TRUE), softCommit |-> Some(FALSE), waitFlush |-> NoneV,
      waitSearcher |-> NoneV],
     [commit |-> NoneV, softCommit |-> Some(TRUE), waitFlush |-> Some(FALSE),
      waitSearcher |-> Some(TRUE)]}

Next ==
    \/ \E q \in Queries, kw \in KwargSets : search(q, "select", kw)
    \/ \E kw \in KwargSets : more_like_this("id:doc_1", "title", kw)
    \/ \E kw \in KwargSets : suggest_terms("title", "do", kw)
    \/ \E id \in {NoneV, Some("doc_1")}, q \in {NoneV, Some("*:*")}, f \in CallFlags :
            delete(id, q, f)
    \/ \E f \in CallFlags, e \in {NoneV, Some(TRUE)} : commit(f, e)
    \/ \E f \in CallFlags, n \in {0, 2} : optimize(f, n)
    \/ Tick
    \/ \E err \in TransportErrors : RequestFails(err)
    \/ DeadlinePasses
    \/ \E r \in Responses : HeadersArrive(r)
    \/ JsonRead
    \/ BodyRead
    \/ TextRead
    \/ \E err \in ReadErrors : ReadFails(err)
    \/ Return
    \/ Close

Spec == Init /\ [][Next]_vars

(***************************************************************************)
(* The properties of the request pipeline.                                 *)
(***************************************************************************)

\* The parameters of the search in progress once wt=json is added, encoded.
SearchParams == urlencode(DictSet(DictUpdate(<<<<"q", call.q>>>>, call.kwargs), "wt", "json"))

\* The URL of a path under the base URL of the client.
UrlOf(path) == RStripSet(url, {"/"}) \o "/" \o path

\* C1: a search issues exactly one request; with encoded parameters shorter
\* than 1024 characters it is a GET with the parameters in the URL and no
\* body, from 1024 characters on it is a POST to the handler path with the
\* encoded parameters as body and the form content type.  (The request is
\* looked at while it is awaited: nothing changes it afterwards.)
C1_SelectGetOrPost ==
    call.op = "search" =>
        /\ Len(sent) = 1
        /\ pc = "request" =>
           IF Len(SearchParams) < 1024
           THEN /\ sent[1].method = "get"
                /\ sent[1].url = UrlOf(call.search_handler \o "/?" \o SearchParams)
                /\ sent[1].data = NoneV
           ELSE /\ sent[1].method = "post"
                /\ sent[1].url = UrlOf(call.search_handler \o "/")
                /\ sent[1].data = Some(SearchParams)
                /\ sent[1].content_type
                       = Some("application/x-www-form-urlencoded; charset=utf-8")

\* A search whose encoded parameters are exactly 1024 characters was posted.
C1_Witness ==
    /\ call.op = "search"
    /\ pc = "request"
    /\ Len(sent) = 1
    /\ sent[1].method = "post"
    /\ Len(Val(sent[1].data)) = 1024

\* C2: delete with both id and q, or with neither, raises ValueError and
\* dispatches no request; with exactly one of them it posts one update
\* request whose body is the delete message of that target.
C2_DeleteValidation ==
    call.op = "delete" =>
        IF (call.id = NoneV) = (call.q = NoneV)
        THEN /\ pc = "done"
             /\ outcome.kind = "raise"
             /\ outcome.cls = "ValueError"
             /\ sent = <<>>
        ELSE /\ Len(sent) = 1
             /\ sent[1].method = "post"
             /\ StartsWith(sent[1].url, UrlOf("update/"))
             /\ sent[1].data
                    = Some(IF call.id # NoneV
                           THEN "<delete><id>" \o Val(call.id) \o "</id></delete>"
                           ELSE "<delete><query>" \o Val(call.q) \o "</query></delete>")
             /\ ~(outcome.kind = "raise" /\ outcome.cls = "ValueError")

\* delete was called with both id and q and has raised.
C2_Witness ==
    /\ call.op = "delete"
    /\ call.id # NoneV
    /\ call.q # NoneV
    /\ pc = "done"
    /\ outcome.cls = "ValueError"

\* The category of a transport failure: a timeout, a connection that could
\* not be made or kept, anything else.
FailureCategory(exc) ==
    IF exc.cls \in {"ClientTimeoutError", "TimeoutError"} THEN "Timeout"
    ELSE IF exc.cls \in {"ClientOSError", "ClientConnectionError"} THEN "Connection"
    ELSE "Generic"

\* C3: a failure raised while the request is issued (no response has come)
\* reaches the caller as one SolrError of the category of the failure,
\* Timeout before Connection before Generic, with the URL in its message.
C3_TransportFailureClassified ==
    (pc = "done" /\ fault # NoFault /\ resp = NoneV) =>
        /\ outcome.kind = "raise"
        /\ outcome.cls = "SolrError"
        /\ outcome.category = FailureCategory(fault)
        /\ Contains(outcome.message, sent[1].url)
        /\ Contains(outcome.message, fault.text)

\* C4: the timeout covers the whole attempt: no call is suspended past the
\* deadline, in the wait for the headers or in a read of the body, and a
\* call that ends after the deadline has failed with the Timeout error.
C4_TimeoutCoversAttempt ==
    /\ pc \in Waiting => clock <= Timeout
    /\ (pc = "done" /\ sent # <<>> /\ clock > Timeout) =>
            (outcome.cls = "SolrError" /\ outcome.category = "Timeout")

\* C5: a call dispatches at most one request; a call that failed (a transport
\* failure, a status that is not 200, a validation failure) has issued no
\* request after the failure, and one exception is what the caller gets.
C5_NoRetry ==
    /\ Len(sent) <= 1
    /\ (pc = "done") = (outcome.kind # "none")
    /\ (pc = "done" /\ fault # NoFault) => (Len(sent) = 1 /\ outcome.kind = "raise")
    /\ (pc = "done" /\ resp # NoneV /\ Val(resp).status # 200) =>
            (Len(sent) = 1 /\ outcome.kind = "raise")
    /\ (pc = "done" /\ outcome.cls = "ValueError" /\ call.op = "delete") => sent = <<>>

\* A request failed in transport and the call has ended with one request sent.
C5_Witness ==
    /\ pc = "done"
    /\ fault # NoFault
    /\ resp = NoneV
    /\ Len(sent) = 1
    /\ outcome.kind = "raise"

\* C6: _send_request returns the text of the response exactly when the
\* status is 200 (seen in the operations that return what it returns); for
\* every other status it raises the SolrError that carries the status.
C6_TextIffStatus200 ==
    (pc = "done" /\ resp # NoneV /\ fault = NoFault) =>
        IF Val(resp).status = 200
        THEN call.op \in {"delete", "commit", "optimize"} =>
                (outcome.kind = "return" /\ outcome.value = Val(resp).body.raw)
        ELSE /\ outcome.kind = "raise"
             /\ outcome.cls = "SolrError"
             /\ Contains(outcome.message, "(HTTP " \o IntStr(Val(resp).status) \o ")")

\* C7: extract_error never raises: whatever the headers and the body of the
\* response, it returns a pair.
C7_ExtractorNeverRaises == extracted # NoneV => Val(extracted).raised = ""

\* The members of a JSON object of a key.
MembersOf(v, key) == IF v.t = "obj" THEN SelectSeq(v.members, LAMBDA m : m[1] = key) ELSE <<>>

\* A JSON value has the shape error.msg.
HasErrorMsg(v) ==
    /\ MembersOf(v, "error") # <<>>
    /\ MembersOf(MembersOf(v, "error")[1][2], "msg") # <<>>

\* The msg of a value of that shape, as the reason: a string, or None for null.
ErrorMsgText(v) ==
    IF MembersOf(MembersOf(v, "error")[1][2], "msg")[1][2].t = "str"
    THEN Some(MembersOf(MembersOf(v, "error")[1][2], "msg")[1][2].s)
    ELSE NoneV

\* C8: for a body that decodes as JSON, extract_error gives the msg as the
\* reason and no detail when the value has the shape error.msg, and no reason
\* and the raw body as the detail when it has not; it does not scrape.
C8_JsonReasonOrRawBody ==
    (extracted # NoneV /\ Val(resp).body.json # NoneV) =>
        /\ Val(extracted).raised = ""
        /\ ~Val(extracted).scraped
        /\ IF HasErrorMsg(Val(Val(resp).body.json))
           THEN /\ Val(extracted).reason = ErrorMsgText(Val(Val(resp).body.json))
                /\ Val(extracted).full_response = NoneV
           ELSE /\ Val(extracted).reason = NoneV
                /\ Val(extracted).full_response = Some(Val(resp).body.raw)

\* The reason and the detail _send_request gives to make_error_msg (lines
\* 102-106): the reason header and no detail, or what extract_error returned.
StatusReason ==
    IF Val(resp).headers.reason # NoneV THEN Val(resp).headers.reason
    ELSE Val(extracted).reason

StatusDetail ==
    IF Val(resp).headers.reason # NoneV THEN NoneV ELSE Val(extracted).full_response

\* C12: the error text of a status error is "[Reason: <reason>]" and nothing
\* of the detail when there is a reason, and "[Reason: None]", a line feed
\* and the detail text when there is none (a detail of None is printed as
\* "None").
C12_ErrorText ==
    (pc = "done" /\ outcome.category = "Status") =>
        outcome.message
            = "Solr responded with an error (HTTP " \o IntStr(Val(resp).status) \o "): "
                \o (IF StatusReason # NoneV THEN "[Reason: " \o Val(StatusReason) \o "]"
                    ELSE "[Reason: None]\n"
                            \o (IF StatusDetail = NoneV THEN "None" ELSE Val(StatusDetail)))

\* A status error was raised for a response that gave both a reason and a
\* detail that is not empty.
C12_Witness ==
    /\ pc = "done"
    /\ outcome.category = "Status"
    /\ extracted # NoneV
    /\ Val(extracted).reason # NoneV
    /\ Val(extracted).full_response \notin {NoneV, Some("")}

\* The flags of an update submission.
FlagNames == {"commit", "softCommit", "waitFlush", "waitSearcher", "overwrite"}

\* The flags the operation in progress takes from its caller.
FlagsOf(op) ==
    CASE op = "delete" -> {"commit", "waitFlush", "waitSearcher"}
      [] op = "commit" -> {"softCommit", "waitFlush", "waitSearcher"}
      [] op = "optimize" -> {"waitFlush", "waitSearcher"}
      [] OTHER -> {}

\* The value the caller set a flag to, NoneV for a flag that was not set.
CallerFlag(name) == IF name \in FlagsOf(call.op) THEN call.flags[name] ELSE NoneV

\* C15: the path of an update request has <flag>=true or <flag>=false, by
\* the truth of the value, for each flag the caller set to a value that is
\* not None, and nothing of a flag that was not set.
C15_FlagsIffSet ==
    (call.op \in {"delete", "commit", "optimize"} /\ Len(sent) = 1) =>
        \A name \in FlagNames :
            IF CallerFlag(name) # NoneV
            THEN Contains(sent[1].url, name \o "=" \o BoolStr(CallerFlag(name)))
            ELSE ~Contains(sent[1].url, name \o "=")

\* The query string of the request of a read operation: what follows the
\* question mark of the URL, or the body of a POST.
QueryString(req) ==
    IF req.data # NoneV THEN Val(req.data)
    ELSE Slice(req.url, FindFrom(req.url, "?", 1) + 1, Len(req.url))

\* A query string has the parameter wt once, with the value json.
WtJsonOnce(query) ==
    /\ FindFrom("&" \o query \o "&", "&wt=json&", 1) # 0
    /\ FindFrom("&" \o query, "&wt=", FindFrom("&" \o query \o "&", "&wt=json&", 1) + 1) = 0
    /\ FindFrom("&" \o query, "&wt=", 1) = FindFrom("&" \o query \o "&", "&wt=json&", 1)

\* C19: the request of every search, more_like_this and suggest_terms has
\* the parameter wt once, with the value json, whatever keyword parameters
\* the caller gave, a wt of their own included.  (The request is looked at
\* while it is awaited: nothing changes it afterwards.)
C19_WtJson ==
    (call.op \in {"search", "more_like_this", "suggest_terms"} /\ pc = "request") =>
        /\ Len(sent) = 1
        /\ WtJsonOnce(QueryString(sent[1]))

\* A search was issued with wt=xml among its keyword parameters.
C19_Witness ==
    /\ call.op = "search"
    /\ pc = "request"
    /\ DictHas(call.kwargs, "wt")
    /\ DictGet(call.kwargs, "wt") = "xml"

\* C22: a response whose status is not 200 and that has a reason header
\* fails the call at once with that header as the reason of the error:
\* extract_error is not called and the body is not read; without the header
\* the call goes on to extract_error, which has returned or raised when the
\* call has ended with no read of the body failing.
C22_ReasonHeaderOrExtractor ==
    /\ pc \in {"json", "read"} => Val(resp).headers.reason = NoneV
    /\ (pc = "done" /\ resp # NoneV /\ Val(resp).status # 200) =>
            IF Val(resp).headers.reason # NoneV
            THEN /\ extracted = NoneV
                 /\ fault = NoFault
                 /\ outcome = Raised("SolrError", "Status",
                                     "Solr responded with an error (HTTP "
                                         \o IntStr(Val(resp).status) \o "): [Reason: "
                                         \o Val(Val(resp).headers.reason) \o "]")
            ELSE fault = NoFault => extracted # NoneV

\* A call has failed with the reason header of a response of status 500,
\* whose body nobody has read.
C22_Witness ==
    /\ pc = "done"
    /\ resp # NoneV
    /\ Val(resp).status = 500
    /\ Val(resp).headers.reason = Some("Bad Request")
    /\ extracted = NoneV
    /\ outcome.category = "Status"

\* The detail extract_error returned after it scraped the body.
ScrapedDetail == Val(Val(extracted).full_response)

\* C25: a detail that extract_error returns for a body it scraped holds no
\* line feed and no carriage return, and no white space at either end, white
\* space that a decoded entity gives included.
C25_DetailNormalized ==
    (extracted # NoneV /\ Val(extracted).raised = "" /\ Val(extracted).scraped) =>
        /\ ~Contains(ScrapedDetail, "\n")
        /\ ~Contains(ScrapedDetail, "\r")
        /\ Strip(ScrapedDetail) = ScrapedDetail

ScrapeCall(headers, response) == [headers |-> headers, response |-> response, result |-> NoneV]

InitScrape ==
    /\ url \in BaseUrls
    /\ pc = "idle"
    /\ call = [op |-> "none"]
    /\ sent = <<>>
    /\ resp = NoneV
    /\ clock = 0
    /\ fault = NoFault
    /\ outcome = NoOutcome
    /\ extracted = NoneV
    /\ scrape \in {Some(ScrapeCall(h, b)) : h \in HeaderSets, b \in MarkupBodies}
    /\ session = "open"
    /\ closed = FALSE
    /\ helper = NoneV
    /\ results = NoneV
    /\ iters = <<>>
    /\ engine = NoEngine

Scrape ==
    /\ scrape # NoneV
    /\ Val(scrape).result = NoneV
    /\ scrape' = Some([Val(scrape) EXCEPT
                          !.result = Some(scrape_response(Val(scrape).headers,
                                                          Val(scrape).response))])
    /\ UNCHANGED <<url, pc, call, sent, resp, clock, fault, outcome, extracted, session, closed,
                   helper, results, iters, engine>>

NextScrape == Scrape

SpecScrape == InitScrape /\ [][NextScrape]_vars

(***************************************************************************)
(* The properties of scrape_response.                                      *)
(***************************************************************************)

\* scrape_response was given a body that starts with an XML declaration and
\* parses, and is through.
StrictXml ==
    /\ scrape # NoneV
    /\ Val(scrape).result # NoneV
    /\ StartsWith(Val(scrape).response.raw, "<?xml")
    /\ Val(scrape).response.xml # NoneV

\* The str node of a name under lst[@name=error] of the body, NoneV for none.
ErrorNode(name) == find(Val(Val(scrape).response.xml), "lst", Some("error"), "str", Some(name))

\* The text of a node that exists, "" for a node without text.
NodeText(node) == IF Val(node).text = NoneV THEN "" ELSE Val(Val(node).text)

\* scrape_response returned this pair.
ScrapeReturned(reason, full_html) ==
    /\ Val(Val(scrape).result).raised = ""
    /\ Val(Val(scrape).result).reason = reason
    /\ Val(Val(scrape).result).full_html = full_html

\* A node of a name exists and has a text.
HasText(name) == ErrorNode(name) # NoneV /\ Val(ErrorNode(name)).text # NoneV

\* C9 as it is stated: with a msg node and a trace node, each with a text,
\* the result is the trimmed msg text and the trace text, whatever the server.
C9_MsgAndTraceAsStated ==
    (StrictXml /\ HasText("msg") /\ HasText("trace")) =>
        ScrapeReturned(Some(Strip(NodeText(ErrorNode("msg")))), NodeText(ErrorNode("trace")))

\* Both nodes have a text with a character that is no white space.
BothTexts ==
    /\ ErrorNode("msg") # NoneV
    /\ ErrorNode("trace") # NoneV
    /\ Strip(NodeText(ErrorNode("msg"))) # ""
    /\ Strip(NodeText(ErrorNode("trace"))) # ""

\* C9, amended: with a msg node and a trace node whose texts each hold a
\* character that is no white space, the result is the trimmed msg text and
\* the trimmed trace text, whatever the server: the heuristics of the server
\* type (the h1 of the body, its pre and title nodes) have no part in it.
C9_MsgAndTrace ==
    (StrictXml /\ BothTexts) =>
        ScrapeReturned(Some(Strip(NodeText(ErrorNode("msg")))),
                       Strip(NodeText(ErrorNode("trace"))))

\* Tomcat served a body with both texts and an h1 element, and the scrape is
\* through.
C9_Witness ==
    /\ StrictXml
    /\ BothTexts
    /\ Val(scrape).headers.server = Some("Apache-Coyote/1.1")
    /\ Contains(Val(scrape).response.raw, "<h1>")
    /\ NodeText(ErrorNode("trace")) # Strip(NodeText(ErrorNode("trace")))

\* C10 as it is stated: with a msg node whose text is not empty and no trace
\* node, the result is the trimmed msg text twice, whatever the server.
C10_MsgOnlyAsStated ==
    (StrictXml /\ ErrorNode("msg") # NoneV /\ ErrorNode("trace") = NoneV
        /\ NodeText(ErrorNode("msg")) # "") =>
        ScrapeReturned(Some(Strip(NodeText(ErrorNode("msg")))), Strip(NodeText(ErrorNode("msg"))))

\* C10, amended: with a msg node whose text holds a character that is no
\* white space and no trace node, the result is the trimmed msg text twice,
\* whatever the server.
C10_MsgOnly ==
    (StrictXml /\ ErrorNode("msg") # NoneV /\ ErrorNode("trace") = NoneV
        /\ Strip(NodeText(ErrorNode("msg"))) # "") =>
        ScrapeReturned(Some(Strip(NodeText(ErrorNode("msg")))), Strip(NodeText(ErrorNode("msg"))))

\* Tomcat served a body with a msg text and no trace node, and the scrape is
\* through.
C10_Witness ==
    /\ StrictXml
    /\ ErrorNode("msg") # NoneV
    /\ ErrorNode("trace") = NoneV
    /\ Strip(NodeText(ErrorNode("msg"))) # ""
    /\ Val(scrape).headers.server = Some("Apache-Coyote/1.1")

\* scrape_response was given a body that starts with an XML declaration and
\* does not parse, and is through.
MalformedXml ==
    /\ scrape # NoneV
    /\ Val(scrape).result # NoneV
    /\ StartsWith(Val(scrape).response.raw, "<?xml")
    /\ Val(scrape).response.xml = NoneV

\* The server header names Tomcat's connector.
TomcatServed ==
    /\ Val(scrape).headers.server # NoneV
    /\ Contains(Lower(Val(Val(scrape).headers.server)), "coyote")

\* The body without line feeds, carriage returns and break tags, trimmed.
WithoutBreaks(s) ==
    Strip(Replace(Replace(Replace(Replace(s, "\n", ""), "\r", ""), "<br/>", ""), "<br />", ""))

\* C11 as it is stated: for a body that starts with an XML declaration and
\* is not well-formed, the result is no reason and the body without its line
\* breaks (read as all that the normalisation removes), whatever the server.
C11_MalformedXmlAsStated ==
    MalformedXml => ScrapeReturned(NoneV, WithoutBreaks(Val(scrape).response.raw))

\* C11, amended: for a body that starts with an XML declaration and is not
\* well-formed, the result is no reason and the body without its line feeds,
\* carriage returns and break tags, trimmed, unless Tomcat served it and the
\* heading pattern matches in it: then the reason is the text of the heading
\* and the detail is empty.
C11_MalformedXml ==
    MalformedXml =>
        IF TomcatServed /\ H1Search(Val(scrape).response.raw) # NoneV
        THEN ScrapeReturned(H1Search(Val(scrape).response.raw), "")
        ELSE ScrapeReturned(NoneV, WithoutBreaks(Val(scrape).response.raw))

\* Jetty served a cut-off body with carriage returns and break tags in it,
\* and the scrape is through.
C11_Witness ==
    /\ MalformedXml
    /\ Val(scrape).headers.server = Some("Jetty(9.2.z-SNAPSHOT)")
    /\ Contains(Val(scrape).response.raw, "<br/>")
    /\ Contains(Val(scrape).response.raw, "\r")

\* The body has a msg node with a text and no trace node.
MsgOnly == StrictXml /\ HasText("msg") /\ ErrorNode("trace") = NoneV

\* The trimmed text of the msg node.
MsgText == Strip(NodeText(ErrorNode("msg")))

\* C23 as it is stated: with a msg node and no trace node the result is the
\* one of the heuristics of the server type, entered with the msg text as
\* reason and detail.
C23_MsgOnlyFallsThroughAsStated ==
    MsgOnly =>
        Val(Val(scrape).result)
            = Heuristics(server_type(Val(scrape).headers), Val(scrape).response,
                         StrictResultGoesOn(Some(MsgText), MsgText))

\* C23, amended: with a msg node and no trace node, scrape_response returns
\* the trimmed msg text as reason and detail at once when that text is not
\* empty; only with an empty trimmed text does it go on to the heuristics:
\* for Tomcat the first h1 is the reason, or the whole body the detail; for
\* the others the parse finds no pre or title node in the error document and
\* the empty reason and detail stay.
C23_MsgOnlyFallsThrough ==
    MsgOnly =>
        IF MsgText # "" THEN ScrapeReturned(Some(MsgText), MsgText)
        ELSE IF ~TomcatServed THEN ScrapeReturned(Some(""), "")
        ELSE IF H1Search(Val(scrape).response.raw) # NoneV
        THEN ScrapeReturned(H1Search(Val(scrape).response.raw), "")
        ELSE ScrapeReturned(Some(""), WithoutBreaks(Val(scrape).response.raw))

\* Tomcat served a body whose msg text is all white space, with no trace
\* node, and the scrape went on to make the whole body the detail.
C23_Witness ==
    /\ MsgOnly
    /\ MsgText = ""
    /\ TomcatServed
    /\ Val(Val(scrape).result).full_html # ""

\* scrape_response is through and did not return from its strict parse: it
\* took the path of the heuristics.
HeuristicPath ==
    /\ scrape # NoneV
    /\ Val(scrape).result # NoneV
    /\ StrictParse(Val(scrape).response).raised = ""
    /\ ~StrictParse(Val(scrape).response).returned

\* The strict parse left neither a reason nor a detail behind.
StrictFoundNothing ==
    /\ StrictParse(Val(scrape).response).reason = NoneV
    /\ StrictParse(Val(scrape).response).full_html = ""

JettyServed ==
    /\ Val(scrape).headers.server # NoneV
    /\ Contains(Lower(Val(Val(scrape).headers.server)), "jetty")

\* The node the server type makes the reason of: body/pre for Jetty,
\* head/title for the others.
FlavorNode(tree) ==
    IF JettyServed THEN find(tree, "body", NoneV, "pre", NoneV)
    ELSE find(tree, "head", NoneV, "title", NoneV)

\* What the claim gives for a body: for Tomcat the first h1 and no detail,
\* or no reason and the whole body; for the others the text of the node of
\* the server type and no detail, or no reason and the tree as text (a
\* detail is read as the normalised one).
ByFlavorNode(tree, node) ==
    IF node # NoneV /\ Val(node).text # NoneV
    THEN ScrapeReturned(Val(node).text, "")
    ELSE ScrapeReturned(NoneV, WithoutBreaks(tostring(tree)))

ByFlavor ==
    IF TomcatServed
    THEN IF H1Search(Val(scrape).response.raw) # NoneV
         THEN ScrapeReturned(H1Search(Val(scrape).response.raw), "")
         ELSE ScrapeReturned(NoneV, WithoutBreaks(Val(scrape).response.raw))
    ELSE ByFlavorNode(Val(Val(scrape).response.xml), FlavorNode(Val(Val(scrape).response.xml)))

\* C24 as it is stated: on the path of the heuristics (for the servers that
\* are not Tomcat: of a body that parses), the result is the one the server
\* type gives.
C24_ByFlavorAloneAsStated ==
    (HeuristicPath /\ (TomcatServed \/ Val(scrape).response.xml # NoneV)) => ByFlavor

\* C24, amended: on the path of the heuristics, when the strict parse left
\* neither a reason nor a detail, the result is the one the server type
\* gives (for the servers that are not Tomcat: of a body that parses).
C24_ByFlavorAlone ==
    (HeuristicPath /\ StrictFoundNothing /\ (TomcatServed \/ Val(scrape).response.xml # NoneV))
        => ByFlavor

\* Jetty served a page without a pre node, and the tree is the detail.
C24_Witness ==
    /\ HeuristicPath
    /\ StrictFoundNothing
    /\ JettyServed
    /\ Val(scrape).response.xml # NoneV
    /\ FlavorNode(Val(Val(scrape).response.xml)) = NoneV
    /\ Contains(Val(Val(scrape).result).full_html, "<body")

(***************************************************************************)
(* The helpers on their own: utils.is_null_value, Solr._build_doc and the  *)
(* unpacking of the metadata in Solr.extract, each applied to one of the   *)
(* inputs.                                                                 *)
(***************************************************************************)

\* The values is_null_value is given.
NullCandidates ==
    {JNull, JStr(""), JStr("Hello"), JStr(" "), JNum(0), JNum(1), JBool(FALSE), JBool(TRUE),
     JArr(<<>>), JArr(<<JNull>>), PyTuple(<<>>), PyBytes(""), JObj(<<>>)}

\* The documents _build_doc is given: with and without the boost key, with
\* scalars and sequences that are null or hold nulls.
BoostValues == {<<>>, <<JNull>>, <<JStr("")>>, <<JNum(2)>>}

Scalars == {JStr("Whee!"), JStr(""), JNull, JNum(0), JBool(FALSE), JStr("a\fb")}

Sequences ==
    {JArr(<<JStr("a"), JNull, JStr(""), JStr("b")>>), PyTuple(<<JNull>>), JArr(<<>>),
     PyTuple(<<JNum(0), JStr("c")>>)}

Docs ==
    {<<<<"id", JStr("doc_1")>>>> \o (IF b = <<>> THEN <<>> ELSE <<<<"boost", b[1]>>>>)
        \o <<<<"title", t>>, <<"tags", g>>>> :
        b \in BoostValues, t \in Scalars, g \in Sequences}

FieldBoosts ==
    {NoneV, Some(<<>>), Some(<<<<"title", JNum(10)>>>>),
     Some(<<<<"title", JNum(0)>>, <<"tags", JNum(2)>>>>)}

FieldUpdates == {NoneV, Some(<<<<"tags", "add">>>>)}

\* The metadata lists of the extract handler: keys and values in turn, with
\* a key that comes twice, and one list that is cut short.
MetadataLists ==
    {NoneV, Some(<<>>), Some(<<"a", "1", "b", "2">>), Some(<<"a", "1", "a", "2">>),
     Some(<<"a", "1", "b", "2", "a", "3">>), Some(<<"b", "2", "a", "1", "c", "3", "a", "4">>),
     Some(<<"a", "1", "b">>)}

HelperCalls ==
    {[fn |-> "is_null_value", value |-> v, result |-> NoneV] : v \in NullCandidates}
        \cup {[fn |-> "_build_doc", doc |-> d, boost |-> b, fieldUpdates |-> u, result |-> NoneV] :
                d \in Docs, b \in FieldBoosts, u \in FieldUpdates}
        \cup {[fn |-> "extract", input |-> m, raw_metadata |-> m, metadata |-> NoneV,
                pc |-> "start", raised |-> ""] : m \in MetadataLists}

\* The variables of the request pipeline.
pipeline == <<url, pc, call, sent, resp, clock, fault, outcome, extracted>>

InitHelpers ==
    /\ url \in BaseUrls
    /\ pc = "idle"
    /\ call = [op |-> "none"]
    /\ sent = <<>>
    /\ resp = NoneV
    /\ clock = 0
    /\ fault = NoFault
    /\ outcome = NoOutcome
    /\ extracted = NoneV
    /\ scrape = NoneV
    /\ session = "open"
    /\ closed = FALSE
    /\ helper \in {Some(c) : c \in HelperCalls}
    /\ results = NoneV
    /\ iters = <<>>
    /\ engine = NoEngine

IsNullValue ==
    /\ Val(helper).fn = "is_null_value"
    /\ Val(helper).result = NoneV
    /\ helper' = Some([Val(helper) EXCEPT !.result = Some(is_null_value(Val(helper).value))])
    /\ UNCHANGED <<pipeline, scrape, session, closed, results, iters, engine>>

BuildDoc ==
    /\ Val(helper).fn = "_build_doc"
    /\ Val(helper).result = NoneV
    /\ helper' = Some([Val(helper) EXCEPT
                          !.result = Some(_build_doc(Val(helper).doc, Val(helper).boost,
                                                     Val(helper).fieldUpdates))])
    /\ UNCHANGED <<pipeline, scrape, session, closed, results, iters, engine>>

\* Solr.extract, lines 536-540: the metadata dict is made, and the loop is
\* entered for a list that is not empty (raw_metadata is what data.pop() of
\* line 538 gave: the list, or None without the key).
ExtractMetadata ==
    /\ Val(helper).fn = "extract"
    /\ Val(helper).pc = "start"
    /\ helper' = Some([Val(helper) EXCEPT
                          !.metadata = Some(<<>>),
                          !.pc = IF NotEmpty(Val(helper).raw_metadata) THEN "loop" ELSE "done"])
    /\ UNCHANGED <<pipeline, scrape, session, closed, results, iters, engine>>

\* The loop body with the two pops in the other order: the key is popped
\* before the value.
UnpackPairKeyFirst(h, raw) ==
    IF Len(raw) < 2
    THEN [h EXCEPT !.raw_metadata = Some(<<>>), !.pc = "done", !.raised = "IndexError"]
    ELSE [h EXCEPT !.raw_metadata = Some(SubSeq(raw, 1, Len(raw) - 2)),
                   !.metadata = Some(DictSet(Val(h.metadata), raw[Len(raw)], raw[Len(raw) - 1])),
                   !.pc = IF Len(raw) = 2 THEN "done" ELSE "loop"]

\* Solr.extract, lines 543-544, one turn of the loop: the right-hand side
\* pops the value, then the subscript pops the key; pop() of the empty list
\* raises IndexError.
UnpackPair(h, raw) ==
    IF Len(raw) < 2
    THEN [h EXCEPT !.raw_metadata = Some(<<>>), !.pc = "done", !.raised = "IndexError"]
    ELSE [h EXCEPT !.raw_metadata = Some(SubSeq(raw, 1, Len(raw) - 2)),
                   !.metadata = Some(DictSet(Val(h.metadata), raw[Len(raw) - 1], raw[Len(raw)])),
                   !.pc = IF Len(raw) = 2 THEN "done" ELSE "loop"]

Unpack ==
    /\ Val(helper).fn = "extract"
    /\ Val(helper).pc = "loop"
    /\ helper' = Some(UnpackPair(Val(helper), Val(Val(helper).raw_metadata)))
    /\ UNCHANGED <<pipeline, scrape, session, closed, results, iters, engine>>

NextHelpers ==
    \/ IsNullValue
    \/ BuildDoc
    \/ ExtractMetadata
    \/ Unpack

SpecHelpers == InitHelpers /\ [][NextHelpers]_vars

(***************************************************************************)
(* The properties of the helpers.                                          *)
(***************************************************************************)

\* The helper of a name was applied and is through.
Applied(fn) ==
    /\ helper # NoneV
    /\ Val(helper).fn = fn
    /\ Val(helper).result # NoneV

\* C13: is_null_value is true exactly for None and for the string of length
\* zero; it is false for 0, False, an empty sequence and every other value.
C13_NullIsNoneOrEmptyString ==
    Applied("is_null_value") =>
        (Val(Val(helper).result) <=> Val(helper).value \in {JNull, JStr("")})

\* is_null_value was applied to 0, to False or to an empty sequence, and
\* said no.
C13_Witness ==
    /\ Applied("is_null_value")
    /\ Val(helper).value \in {JNum(0), JBool(FALSE), JArr(<<>>), PyTuple(<<>>)}
    /\ Val(Val(helper).result) = FALSE

\* The field entries of a built document that carry a name.
EntriesNamed(doc_elem, key) ==
    {i \in 1..Len(doc_elem.kids) : <<"name", key>> = doc_elem.kids[i].attrib[1]}

\* The elements of the value of a key (the value itself when it is no
\* sequence) that are neither None nor the empty string.
NotNullAt(doc, key) ==
    LET value == DictGet(doc, key)
    IN IF value.t \in {"arr", "tuple"}
       THEN {j \in 1..Len(value.items) : value.items[j] \notin {JNull, JStr("")}}
       ELSE {j \in {1} : value \notin {JNull, JStr("")}}

\* C14: a built document has, for every key but boost, as many field entries
\* as the value has elements that are not null, so none for a null one; it
\* has the boost attribute exactly when the document has the boost key,
\* whatever its value, a null one included; no field entry is named boost.
C14_NullSkippedBoostKept ==
    Applied("_build_doc") =>
        /\ \A i \in 1..Len(Val(helper).doc) :
              Val(helper).doc[i][1] # "boost" =>
                  Cardinality(EntriesNamed(Val(Val(helper).result), Val(helper).doc[i][1]))
                      = Cardinality(NotNullAt(Val(helper).doc, Val(helper).doc[i][1]))
        /\ EntriesNamed(Val(Val(helper).result), "boost") = {}
        /\ DictHas(Val(Val(helper).result).attrib, "boost") = DictHas(Val(helper).doc, "boost")

\* A document with a boost of None and a list that holds nulls was built.
C14_Witness ==
    /\ Applied("_build_doc")
    /\ DictHas(Val(helper).doc, "boost")
    /\ DictGet(Val(helper).doc, "boost") = JNull
    /\ DictGet(Val(helper).doc, "tags") = JArr(<<JStr("a"), JNull, JStr(""), JStr("b")>>)
    /\ DictGet(Val(Val(helper).result).attrib, "boost") = "None"

\* The values of a key that are neither None nor the empty string, each
\* with the key, in their order.
PairsOf(key, kept) == [j \in 1..Len(kept) |-> <<key, kept[j]>>]

\* The pairs of key and value a document gives entries for, from item i on:
\* those of every key but boost, a scalar as a sequence of one.
RECURSIVE EntryPairs(_, _)
EntryPairs(doc, i) ==
    IF i > Len(doc) THEN <<>>
    ELSE (IF doc[i][1] = "boost" THEN <<>>
          ELSE PairsOf(doc[i][1],
                       SelectSeq(IF doc[i][2].t \in {"arr", "tuple"} THEN doc[i][2].items
                                 ELSE <<doc[i][2]>>,
                                 LAMBDA v : v \notin {JNull, JStr("")})))
            \o EntryPairs(doc, i + 1)

\* Whether a map argument has a key (None and the empty map have none).
InMap(map, key) == map # NoneV /\ DictHas(Val(map), key)

\* A field entry is the one of a key and a value.
EntryOf(entry, key, bit, boost, fieldUpdates) ==
    /\ entry.tag = "field"
    /\ DictGet(entry.attrib, "name") = key
    /\ entry.text = Some(from_python(bit))
    /\ DictHas(entry.attrib, "update") = InMap(fieldUpdates, key)
    /\ InMap(fieldUpdates, key) =>
            DictGet(entry.attrib, "update") = DictGet(Val(fieldUpdates), key)
    /\ DictHas(entry.attrib, "boost") = InMap(boost, key)
    /\ InMap(boost, key) => DictGet(entry.attrib, "boost") = str(DictGet(Val(boost), key))

\* The entries are those of the pairs, one for one.
EntriesOf(kids, pairs, boost, fieldUpdates) ==
    /\ Len(kids) = Len(pairs)
    /\ \A i \in 1..Len(pairs) : EntryOf(kids[i], pairs[i][1], pairs[i][2], boost, fieldUpdates)

\* C26: the field entries of a built document are, in the order of the keys
\* and of the elements, one for each element that is not null of every key
\* but boost (one for a scalar that is not null); each has the key as name,
\* from_python of the element as text, the update attribute exactly when the
\* key is in fieldUpdates and the boost attribute exactly when the key is in
\* the boost map, a boost of 0 included.
C26_FieldEntries ==
    Applied("_build_doc") =>
        EntriesOf(Val(Val(helper).result).kids, EntryPairs(Val(helper).doc, 1),
                  Val(helper).boost, Val(helper).fieldUpdates)

\* A document was built with a boost of 0 for the title and an update
\* modifier for the tags: the title entry has the boost "0", and the two
\* tags that are not null have their entries in order.
C26_Witness ==
    /\ Applied("_build_doc")
    /\ InMap(Val(helper).boost, "title")
    /\ DictGet(Val(Val(helper).boost), "title") = JNum(0)
    /\ InMap(Val(helper).fieldUpdates, "tags")
    /\ DictGet(Val(helper).doc, "title") = JBool(FALSE)
    /\ DictGet(Val(helper).doc, "tags") = JArr(<<JStr("a"), JNull, JStr(""), JStr("b")>>)
    /\ Len(Val(Val(helper).result).kids) = 4
    /\ Val(Val(helper).result).kids[2].text = Some("false")
    /\ DictGet(Val(Val(helper).result).kids[2].attrib, "boost") = "0"
    /\ Val(Val(helper).result).kids[4].text = Some("b")

\* extract unpacks a list of even length.
UnpacksPairs ==
    /\ helper # NoneV
    /\ Val(helper).fn = "extract"
    /\ Val(helper).input # NoneV
    /\ Len(Val(Val(helper).input)) % 2 = 0

\* The place of the first pair of the list with a key.
FirstPair(list, key) == Smallest({i \in 1..(Len(list) \div 2) : list[2 * i - 1] = key})

\* A dict sends each key of the list to the value of the first pair with
\* that key, and has no other keys.
MapsPairs(dict, list) ==
    /\ \A i \in 1..(Len(list) \div 2) :
          /\ DictHas(dict, list[2 * i - 1])
          /\ DictGet(dict, list[2 * i - 1]) = list[2 * FirstPair(list, list[2 * i - 1])]
    /\ \A j \in 1..Len(dict) : \E i \in 1..(Len(list) \div 2) : list[2 * i - 1] = dict[j][1]
    /\ \A j, k \in 1..Len(dict) : dict[j][1] = dict[k][1] => j = k

\* C16: the metadata list k1,v1,...,kn,vn of even length is consumed in
\* pairs from the end: inside the loop what is left is a start of the list
\* of even length that is not empty, so the next turn takes a whole pair;
\* the loop ends without an exception with the list empty and a map that
\* sends each ki to vi, the pair nearest the start winning for a key that
\* comes twice; a,1,b,2 gives the map of b to 2 and a to 1, in that order.
C16_MetadataUnpacked ==
    UnpacksPairs =>
        /\ Val(helper).raised = ""
        /\ Val(helper).pc = "loop" =>
              /\ Len(Val(Val(helper).raw_metadata)) > 0
              /\ Len(Val(Val(helper).raw_metadata)) % 2 = 0
              /\ Val(Val(helper).raw_metadata)
                    = SubSeq(Val(Val(helper).input), 1, Len(Val(Val(helper).raw_metadata)))
        /\ Val(helper).pc = "done" =>
              /\ Val(helper).raw_metadata = Some(<<>>)
              /\ MapsPairs(Val(Val(helper).metadata), Val(Val(helper).input))
              /\ Val(helper).input = Some(<<"a", "1", "b", "2">>) =>
                    Val(helper).metadata = Some(<<<<"b", "2">>, <<"a", "1">>>>)

\* A list with a key that comes twice was unpacked to the end.
C16_Witness ==
    /\ UnpacksPairs
    /\ Val(helper).pc = "done"
    /\ Val(helper).input = Some(<<"a", "1", "b", "2", "a", "3">>)
    /\ Val(helper).metadata = Some(<<<<"a", "1">>, <<"b", "2">>>>)

(***************************************************************************)
(* Results on its own: an object is made of one of the decoded responses,  *)
(* its length is asked for and it is traversed, by several iterators at a  *)
(* time.                                                                   *)
(***************************************************************************)

\* How many iterators are made of one object.
MaxIters == 2

TwoDocs == JArr(<<JObj(<<<<"id", JStr("doc_1")>>>>), JObj(<<<<"id", JStr("doc_2")>>>>)>>)

\* The response section: <<>> for none.
ResponseParts ==
    {<<>>, <<JNull>>, <<JObj(<<>>)>>, <<JObj(<<<<"docs", TwoDocs>>>>)>>,
     <<JObj(<<<<"numFound", JNum(3)>>>>)>>,
     <<JObj(<<<<"numFound", JNum(3)>>, <<"docs", TwoDocs>>>>)>>,
     <<JObj(<<<<"numFound", JNum(0)>>, <<"docs", JArr(<<>>)>>>>)>>,
     <<JArr(<<JNum(1)>>)>>}

\* The keys of the maps that are passed through, in the order a response
\* has them.
MapKeys == <<"debug", "highlighting", "facet_counts", "spellcheck", "stats", "grouped">>

ResponseHeaders ==
    {<<>>, <<JNull>>, <<JObj(<<>>)>>, <<JObj(<<<<"status", JNum(0)>>, <<"QTime", JNum(5)>>>>)>>}

CursorMarks == {<<>>, <<JStr("AoE=")>>}

Member1(key, part) == IF part = <<>> THEN <<>> ELSE <<<<key, part[1]>>>>

\* A decoded response with these parts and the maps of these keys.
DecodedOf(header, response, keys, cursor) ==
    JObj(Member1("responseHeader", header) \o Member1("response", response)
            \o [i \in 1..Len(SelectSeq(MapKeys, LAMBDA k : k \in keys)) |->
                   <<SelectSeq(MapKeys, LAMBDA k : k \in keys)[i],
                     JObj(<<<<SelectSeq(MapKeys, LAMBDA k : k \in keys)[i], JNum(1)>>>>)>>]
            \o Member1("nextCursorMark", cursor))

DecodedResponses ==
    {DecodedOf(h, r, {}, c) : h \in ResponseHeaders, r \in ResponseParts, c \in CursorMarks}
        \cup {DecodedOf(<<>>, <<JNull>>, ks, <<>>) :
                ks \in SUBSET {MapKeys[i] : i \in 1..Len(MapKeys)}}

InitResults ==
    /\ url = "http://localhost:8983/solr/core0"
    /\ pc = "idle"
    /\ call = [op |-> "none"]
    /\ sent = <<>>
    /\ resp = NoneV
    /\ clock = 0
    /\ fault = NoFault
    /\ outcome = NoOutcome
    /\ extracted = NoneV
    /\ scrape = NoneV
    /\ session = "open"
    /\ closed = FALSE
    /\ helper \in {Some([fn |-> "Results", decoded |-> d, pc |-> "start", raised |-> "",
                         len |-> NoneV]) : d \in DecodedResponses}
    /\ results = NoneV
    /\ iters = <<>>
    /\ engine = NoEngine

\* Results(decoded) with what the constructor gave.
Constructed(made) ==
    /\ helper' = Some([Val(helper) EXCEPT !.pc = "done", !.raised = made.raised])
    /\ results' = made.self

Construct ==
    /\ Val(helper).fn = "Results"
    /\ Val(helper).pc = "start"
    /\ Constructed(Results(Val(helper).decoded))
    /\ UNCHANGED <<pipeline, scrape, session, closed, iters, engine>>

\* len(results)
Length ==
    /\ results # NoneV
    /\ Val(helper).len = NoneV
    /\ helper' = Some([Val(helper) EXCEPT !.len = Some(__len__(Val(results)))])
    /\ UNCHANGED <<pipeline, scrape, session, closed, results, iters, engine>>

\* iter(results): a traversal begins.
Iterate ==
    /\ results # NoneV
    /\ Len(iters) < MaxIters
    /\ iters' = Append(iters, __iter__(Val(results), iters))
    /\ UNCHANGED <<pipeline, scrape, session, closed, helper, results, engine>>

\* next(it) for one of the iterators that has not ended.
NextDoc(i) ==
    /\ results # NoneV
    /\ ~iters[i].done
    /\ iters' = [iters EXCEPT ![i] = __next__(Val(results), @)]
    /\ UNCHANGED <<pipeline, scrape, session, closed, helper, results, engine>>

NextResults ==
    \/ Construct
    \/ Length
    \/ Iterate
    \/ \E i \in 1..Len(iters) : NextDoc(i)

SpecResults == InitResults /\ [][NextResults]_vars

(***************************************************************************)
(* Properties of Results.                                                  *)
(***************************************************************************)

\* The decoded response the object is made of, and the members of its
\* response section: none when the section is absent, null or no object.
GivenResponse == Val(helper).decoded

ResponseSection == Get(GivenResponse, "response", JNull)

SectionMembers == IF ResponseSection.t = "obj" THEN ResponseSection.members ELSE <<>>

HeaderMembers ==
    IF Get(GivenResponse, "responseHeader", JNull).t = "obj"
    THEN Get(GivenResponse, "responseHeader", JNull).members ELSE <<>>

\* The value of a key among members, or the default when the key is missing.
ValueOr(members, key, default) == IF DictHas(members, key) THEN DictGet(members, key) ELSE default

\* The attribute of the object that holds the map of a key.
AttributeOf(key) == IF key = "facet_counts" THEN "facets" ELSE key

ResultsBuilt ==
    /\ helper # NoneV
    /\ Val(helper).fn = "Results"
    /\ Val(helper).pc = "done"
    /\ results # NoneV

\* C17: a decoded response whose response section is an object, absent or
\* null (and whose header is an object or absent) gives a Results object;
\* its docs and hits are those of the section, or empty and 0 when missing;
\* each of the six maps is the one of its key, or an empty map when that key
\* is missing, whatever the other keys are; qtime and nextCursorMark are
\* those of the response, or None.
C17_ResultsDefaults ==
    (helper # NoneV /\ Val(helper).fn = "Results" /\ Val(helper).pc = "done") =>
        /\ (/\ ResponseSection.t \in {"null", "obj"}
            /\ Get(GivenResponse, "responseHeader", JObj(<<>>)).t = "obj") => ResultsBuilt
        /\ ResultsBuilt =>
            /\ Val(helper).raised = ""
            /\ Val(results).docs = ValueOr(SectionMembers, "docs", PyTuple(<<>>))
            /\ ~DictHas(SectionMembers, "docs") => Len(Val(results).docs.items) = 0
            /\ Val(results).hits = ValueOr(SectionMembers, "numFound", JNum(0))
            /\ \A i \in 1..Len(MapKeys) :
                    Val(results)[AttributeOf(MapKeys[i])]
                        = ValueOr(GivenResponse.members, MapKeys[i], JObj(<<>>))
            /\ Val(results).qtime = ValueOr(HeaderMembers, "QTime", JNull)
            /\ Val(results).nextCursorMark = ValueOr(GivenResponse.members, "nextCursorMark", JNull)

\* An object made of a response whose section is null and that has stats
\* and no other map.
C17_Witness ==
    /\ ResultsBuilt
    /\ DictHas(GivenResponse.members, "response")
    /\ ResponseSection = JNull
    /\ DictHas(GivenResponse.members, "stats")
    /\ ~DictHas(GivenResponse.members, "debug")
    /\ Val(results).stats # JObj(<<>>)
    /\ Val(results).debug = JObj(<<>>)
    /\ Val(results).hits = JNum(0)

\* The documents the response returned.
ReturnedDocs == ValueOr(SectionMembers, "docs", PyTuple(<<>>)).items

\* C18: len() of the object is the number of documents returned, whatever
\* numFound is; every iterator has yielded the documents returned from the
\* first one on, in order, and has yielded all of them when it ends; the
\* object is as it was made.
C18_LengthAndTraversal ==
    ResultsBuilt =>
        /\ Val(helper).len # NoneV => Val(Val(helper).len) = Len(ReturnedDocs)
        /\ \A i \in 1..Len(iters) :
                /\ iters[i].yielded = SubSeq(ReturnedDocs, 1, Len(iters[i].yielded))
                /\ iters[i].done => iters[i].yielded = ReturnedDocs
        /\ Results(GivenResponse).self = results

\* Two documents returned of three found: the length is 2, one traversal
\* has ended and another, begun after it, has yielded the first document.
C18_Witness ==
    /\ ResultsBuilt
    /\ Val(results).hits = JNum(3)
    /\ Val(helper).len = Some(2)
    /\ Len(iters) = 2
    /\ iters[1].done
    /\ Len(iters[1].yielded) = 2
    /\ ~iters[2].done
    /\ Len(iters[2].yielded) = 1

(***************************************************************************)
(* The calls and the requests they send: every public operation that       *)
(* builds a request, with arguments that hold markup and arguments at the  *)
(* length _select posts from, on a client whose url attribute the caller   *)
(* assigns while a call is suspended.                                      *)
(***************************************************************************)

\* A base URL that shares no prefix of its host with the ones of BaseUrls.
ReboundUrl == "http://replica:8983/solr/core1"

\* The commit, softCommit, waitFlush, waitSearcher and overwrite the callers
\* pass to add: the defaults, the defaults with softCommit=True, no commit
\* at once, and neither flag.
AddFlags ==
    {[commit |-> Some(TRUE), softCommit |-> Some(FALSE), waitFlush |-> NoneV,
      waitSearcher |-> NoneV, overwrite |-> NoneV],
     [commit |-> Some(TRUE), softCommit |-> Some(TRUE), waitFlush |-> NoneV,
      waitSearcher |-> NoneV, overwrite |-> NoneV],
     [commit |-> Some(FALSE), softCommit |-> Some(FALSE), waitFlush |-> Some(TRUE),
      waitSearcher |-> NoneV, overwrite |-> NoneV],
     [commit |-> NoneV, softCommit |-> Some(TRUE), waitFlush |-> NoneV,
      waitSearcher |-> NoneV, overwrite |-> Some(FALSE)],
     [commit |-> NoneV, softCommit |-> NoneV, waitFlush |-> NoneV,
      waitSearcher |-> Some(FALSE), overwrite |-> NoneV]}

\* The documents of an add call: none, one, two.
AddedDocs ==
    {<<>>,
     <<<<<<"id", JStr("doc_1")>>, <<"title", JStr("A & B <x> \"q\"")>>>>>>,
     <<<<<<"id", JStr("doc_1")>>, <<"boost", JNum(2)>>, <<"title", JStr("Whee!")>>>>,
       <<<<"id", JStr("doc_2")>>, <<"title", JNull>>>>>>}

AddedBoosts == {NoneV, Some(<<<<"title", JStr("1\"5")>>>>)}

\* The ids and the queries of a delete call, plain ones and ones with markup.
DeletedIds == {NoneV, Some("doc_1"), Some("a</id><id>b")}

DeletedQueries == {NoneV, Some("title:doc"), Some("a&b<c")}

\* The queries and prefixes of the read operations: short ones, ones that
\* alone are as long as GetLimit, and one with which the parameters of
\* more_like_this are ("q=", "&mlt.fl=title" and "&wt=json" are 23 characters).
ReadTexts(short) == {short, Rep("a", GetLimit - 23), Rep("a", GetLimit)}

\* The caller assigns the url attribute of the client (the attribute line 22
\* sets and line 35 reads), between calls or while one is suspended.
Rebind(u) ==
    /\ u # url
    /\ url' = u
    /\ UNCHANGED <<pc, call, sent, resp, clock, fault, outcome, extracted, scrape,
                   session, closed, helper, results, iters, engine>>

NextCalls ==
    \/ \E q \in ReadTexts("*:*") : search(q, "select", <<>>)
    \/ \E q \in ReadTexts("id:doc_1") : more_like_this(q, "title", <<>>)
    \/ \E prefix \in ReadTexts("do") : suggest_terms("title", prefix, <<>>)
    \/ \E id \in DeletedIds, q \in DeletedQueries, f \in CallFlags : delete(id, q, f)
    \/ \E d \in AddedDocs, b \in AddedBoosts, f \in AddFlags, cw \in {NoneV, Some("500")} :
            add(d, b, NoneV, f, cw)
    \/ \E f \in CallFlags, e \in {NoneV, Some(TRUE)} : commit(f, e)
    \/ \E f \in CallFlags, n \in {0, 2} : optimize(f, n)
    \/ \E u \in BaseUrls \cup {ReboundUrl} : Rebind(u)
    \/ \E err \in TransportErrors : RequestFails(err)
    \/ \E r \in {x \in Responses : x.status = 200} : HeadersArrive(r)
    \/ TextRead
    \/ Return

SpecCalls == Init /\ [][NextCalls]_vars

(***************************************************************************)
(* The properties of the calls.                                            *)
(***************************************************************************)

\* The operations that go through _update.
UpdateOps == {"add", "delete", "commit", "optimize"}

\* The request of the call in progress is an update request.
UpdateSent == call.op \in UpdateOps /\ sent # <<>>

\* The path of the request carries the flag.
HasVar(u, name) == Contains(u, "?" \o name \o "=") \/ Contains(u, "&" \o name \o "=")

HasVarValue(u, name, value) ==
    \/ Contains(u \o "&", "?" \o name \o "=" \o value \o "&")
    \/ Contains(u \o "&", "&" \o name \o "=" \o value \o "&")

\* The commit argument _update gets: the caller's for add and delete, the
\* default of the signature for commit and optimize, which pass none.
CommitArg == IF call.op \in {"add", "delete"} THEN call.flags.commit ELSE Some(TRUE)

\* C27: the path of an update request never carries both commit and
\* softCommit; softCommit is there only when the commit argument is None;
\* a call whose commit argument is the default True sends commit=true and
\* no softCommit, also when the caller passed softCommit=True.
C27_CommitOrSoftCommit ==
    UpdateSent =>
        /\ ~(HasVar(sent[1].url, "commit") /\ HasVar(sent[1].url, "softCommit"))
        /\ HasVar(sent[1].url, "softCommit") => CommitArg = NoneV
        /\ CommitArg = Some(TRUE) =>
                /\ HasVarValue(sent[1].url, "commit", "true")
                /\ ~HasVar(sent[1].url, "softCommit")

\* An add and a commit that were called with softCommit=True and the
\* default commit, and an add without commit whose softCommit is sent.
C27_Witness ==
    /\ UpdateSent
    /\ call.flags.softCommit = Some(TRUE)
    /\ \/ call.op = "add" /\ call.flags.commit = Some(TRUE)
       \/ call.op = "commit"
    /\ HasVarValue(sent[1].url, "commit", "true")

\* The parameters of the read operation in progress, as they are encoded.
ReadParams ==
    urlencode(DictSet(DictUpdate(
        CASE call.op = "more_like_this" -> <<<<"q", call.q>>, <<"mlt.fl", call.mltfl>>>>
          [] call.op = "suggest_terms" ->
                <<<<"terms.fl", call.fields>>, <<"terms.prefix", call.prefix>>>>
          [] OTHER -> <<<<"q", call.q>>>>,
        call.kwargs), "wt", "json"))

\* What follows the question mark of a URL, NoneV when there is none.
QueryFrom(u, i) == IF i = 0 THEN NoneV ELSE Some(Slice(u, i + 1, Len(u)))

UrlQuery(u) == QueryFrom(u, FindFrom(u, "?", 1))

\* C28: more_like_this and suggest_terms send a GET without a body whose URL
\* carries the encoded parameters, whatever their length; search alone
\* posts the parameters from GetLimit characters on.
C28_MltAndTermsAlwaysGet ==
    /\ (call.op \in {"more_like_this", "suggest_terms"} /\ sent # <<>>) =>
            /\ sent[1].method = "get"
            /\ sent[1].data = NoneV
            /\ UrlQuery(sent[1].url) = Some(ReadParams)
    /\ (call.op = "search" /\ sent # <<>>) =>
            sent[1].method = (IF Len(ReadParams) < GetLimit THEN "get" ELSE "post")

\* A more_like_this whose encoded parameters are GetLimit characters.
C28_Witness ==
    /\ call.op = "more_like_this"
    /\ sent # <<>>
    /\ Len(ReadParams) = GetLimit
    /\ sent[1].method = "get"

\* The request of the delete in progress.
DeleteSent == call.op = "delete" /\ sent # <<>>

\* The target of the delete in progress: the element it names and the
\* string the caller gave.
DeleteTag == IF call.id # NoneV THEN "id" ELSE "query"

DeleteString == IF call.id # NoneV THEN Val(call.id) ELSE Val(call.q)

\* What stands between the tags of the one target a delete message has
\* room for.
DeleteInner(message, tag) ==
    Slice(message, Len("<delete><" \o tag \o ">") + 1,
          Len(message) - Len("</" \o tag \o "></delete>"))

\* The character data of an element without children: no "<", and no "&"
\* but that of the references to the ampersand and the angle brackets.
IsCharData(s) ==
    /\ ~Contains(s, "<")
    /\ ~Contains(Replace(Replace(Replace(s, "&amp;", ""), "&lt;", ""), "&gt;", ""), "&")

\* The text that character data stands for.
CharDataText(s) == Replace(Replace(Replace(s, "&lt;", "<"), "&gt;", ">"), "&amp;", "&")

\* C30: the message of a delete is a delete element with one child, id or
\* query, that has no children of its own and whose text is the caller's
\* string.
C30_DeleteOneTarget ==
    DeleteSent =>
        /\ StartsWith(Val(sent[1].data), "<delete><" \o DeleteTag \o ">")
        /\ Val(sent[1].data) = "<delete><" \o DeleteTag \o ">"
                \o DeleteInner(Val(sent[1].data), DeleteTag)
                \o "</" \o DeleteTag \o "></delete>"
        /\ IsCharData(DeleteInner(Val(sent[1].data), DeleteTag))
        /\ CharDataText(DeleteInner(Val(sent[1].data), DeleteTag)) = DeleteString

\* What the URL of a request built from the base begins with.
BasePrefix(base) == RStripSet(base, {"/"}) \o "/"

\* The message of a transport error names the URL and no other base.
ReportsUrl(message, u) ==
    /\ Contains(message, u)
    /\ \A base \in BaseUrls \cup {ReboundUrl} :
            ~StartsWith(u, BasePrefix(base)) => ~Contains(message, BasePrefix(base))

\* C29: the one request of a call is built when the call starts, from the
\* url the client has then; while the call is suspended the request stays
\* as it is, also when url is assigned; the error of a failed request names
\* the URL the request was sent to.
C29_UrlFixedAtStart ==
    [][/\ (pc = "idle" /\ sent' # sent) =>
                /\ Len(sent') = 1
                /\ StartsWith(sent'[1].url, BasePrefix(url))
       /\ pc \in Waiting => sent' = sent
       /\ (pc = "request" /\ pc' = "done") => ReportsUrl(outcome'.message, sent[1].url)]_vars

\* A request to the first base is in flight and url has been assigned the
\* other base since the call started.
C29_Witness ==
    /\ pc = "request"
    /\ url = ReboundUrl
    /\ StartsWith(sent[1].url, "http://localhost:8983/")

(***************************************************************************)
(* The client and a search engine, as test_commit and test_optimize use    *)
(* them: the caller awaits every operation before the next one, and the    *)
(* engine shows what was added to a search once it has processed an update *)
(* that carries commit=true.                                               *)
(***************************************************************************)

\* How many calls the caller makes.
MaxCalls == 4

\* The ids of the documents the caller adds, in the order the engine lists
\* them.
EngineIds == <<"doc_6", "doc_7">>

\* The arguments of the caller's add with that commit argument.
AddCommit(c) ==
    [commit |-> c, softCommit |-> Some(FALSE), waitFlush |-> NoneV, waitSearcher |-> NoneV,
     overwrite |-> NoneV]

\* The adds of the caller, each the index of an id and the commit argument:
\* False for the one and the other document, the default for the other.
EngineAdds == {<<1, Some(FALSE)>>, <<2, Some(FALSE)>>, <<2, Some(TRUE)>>}

\* The arguments commit() and optimize() have when called without any.
NoFlags ==
    [commit |-> Some(TRUE), softCommit |-> Some(FALSE), waitFlush |-> NoneV,
     waitSearcher |-> NoneV]

\* The ids of the documents of an add message.
RECURSIVE IdsFrom(_, _)
IdsBetween(message, j, k) ==
    IF k = 0 THEN {}
    ELSE {Slice(message, j + Len("<field name=\"id\">"), k - 1)} \cup IdsFrom(message, k)

IdsAt(message, j) ==
    IF j = 0 THEN {} ELSE IdsBetween(message, j, FindFrom(message, "</field>", j))

IdsFrom(message, i) == IdsAt(message, FindFrom(message, "<field name=\"id\">", i))

\* The response to a search: the documents the engine shows.
Found(ids) ==
    JsonBody(JObj(<<<<"response",
        JObj(<<<<"numFound", JNum(Cardinality(ids))>>,
               <<"docs", JArr([i \in 1..Len(SelectSeq(EngineIds, LAMBDA d : d \in ids)) |->
                                JObj(<<<<"id",
                                        JStr(SelectSeq(EngineIds, LAMBDA d : d \in ids)[i])>>>>)])
               >>>>)>>>>))

\* The response to an update.
Updated == TextBody("<int name=\"status\">0</int>")

\* What the engine holds after an update: the documents of the message are
\* pending, and with commit=true all that is pending is shown.
AfterUpdate(e, request, ids) ==
    [e EXCEPT !.pending = IF HasVarValue(request.url, "commit", "true") THEN {} ELSE @ \cup ids,
              !.visible = IF HasVarValue(request.url, "commit", "true")
                          THEN @ \cup e.pending \cup ids ELSE @]

\* The engine processes the request in flight and has its response ready;
\* served keeps the call the request came from, the request and the
\* documents of the response.
Processed(e, c, request) ==
    IF request.method = "post" /\ Contains(request.url, "/update/")
    THEN [AfterUpdate(e, request, IdsFrom(Val(request.data), 1))
            EXCEPT !.reply = Some(Response(200, NoneV, NoneV, Updated)),
                   !.served = Append(@, [call |-> c, request |-> request, found |-> {}])]
    ELSE [e EXCEPT !.reply = Some(Response(200, NoneV, NoneV, Found(e.visible))),
                   !.served = Append(@, [call |-> c, request |-> request, found |-> e.visible])]

EngineProcesses ==
    /\ pc = "request"
    /\ engine.reply = NoneV
    /\ engine' = Processed(engine, call, sent[Len(sent)])
    /\ UNCHANGED <<url, pc, call, sent, resp, clock, fault, outcome, extracted, scrape,
                   session, closed, helper, results, iters>>

\* The response has gone to the client, which has its headers and reads
\* its body: the engine waits for a request.
EngineWaits ==
    /\ pc = "text"
    /\ engine.reply # NoneV
    /\ engine' = [engine EXCEPT !.reply = NoneV]
    /\ UNCHANGED <<url, pc, call, sent, resp, clock, fault, outcome, extracted, scrape,
                   session, closed, helper, results, iters>>

\* The caller may make its next call.
MayCall == engine.reply = NoneV /\ Len(engine.served) < MaxCalls

NextEngine ==
    \/ \E a \in EngineAdds :
            /\ MayCall
            /\ add(<<<<<<"id", JStr(EngineIds[a[1]])>>, <<"title", JStr("Newly added doc")>>>>>>,
                   NoneV, NoneV, AddCommit(a[2]), NoneV)
    \/ MayCall /\ commit(NoFlags, NoneV)
    \/ MayCall /\ optimize(NoFlags, 0)
    \/ MayCall /\ search("doc", "select", <<>>)
    \/ EngineProcesses
    \/ engine.reply # NoneV /\ HeadersArrive(Val(engine.reply))
    \/ EngineWaits
    \/ engine.reply = NoneV /\ TextRead
    \/ Return

SpecEngine == Init /\ [][NextEngine]_vars

(***************************************************************************)
(* The properties of the client and the engine.                            *)
(***************************************************************************)

\* The ids of the documents a call adds.
AddedIds(c) ==
    IF c.op = "add" THEN {DictGet(c.docs[i], "id").s : i \in 1..Len(c.docs)} ELSE {}

\* The call is one the caller made to have its writes shown: commit(),
\* optimize(), or an add with the default commit.
Commits(c) == c.op \in {"commit", "optimize"} \/ (c.op = "add" /\ c.flags.commit = Some(TRUE))

\* What the k-th call, a search, is to find: the documents of the adds
\* before it that a committing call came with or after, before the search.
ToBeFound(h, k) ==
    UNION {AddedIds(h[i].call) :
            i \in {a \in 1..(k - 1) : \E j \in a..(k - 1) : Commits(h[j].call)}}

\* The call in progress has got its response.
Answered == pc \in {"text", "done"}

\* What the engine served last: the call, the request, what was found.
Last == engine.served[Len(engine.served)]

\* C21: the engine has served the calls in the order the caller made them
\* (the call that has its response is the one served last, with the request
\* it sent); an add with commit=False came with commit=false, a commit and
\* an optimize with commit=true; a search found what was added before it
\* and committed since, and nothing that was added with commit=False and
\* not committed since, and that is what the search returns.
C21_CommitThenSearch ==
    /\ Answered =>
            /\ engine.served # <<>>
            /\ Last.call = call
            /\ Last.request = sent[1]
    /\ engine.served # <<>> =>
            /\ (Last.call.op = "add" /\ Last.call.flags.commit = Some(FALSE)) =>
                    /\ HasVarValue(Last.request.url, "commit", "false")
                    /\ ~HasVarValue(Last.request.url, "commit", "true")
            /\ Last.call.op \in {"commit", "optimize"} =>
                    HasVarValue(Last.request.url, "commit", "true")
            /\ Last.call.op = "search" => Last.found = ToBeFound(engine.served, Len(engine.served))
    /\ (pc = "done" /\ call.op = "search") =>
            outcome = Returned(Found(ToBeFound(engine.served, Len(engine.served))).raw)

\* add(commit=False), a search that does not find the document, commit(),
\* and a search that returns it.
C21_Witness ==
    /\ pc = "done"
    /\ call.op = "search"
    /\ Len(engine.served) = 4
    /\ engine.served[1].call.op = "add"
    /\ engine.served[1].call.flags.commit = Some(FALSE)
    /\ AddedIds(engine.served[1].call) = {"doc_6"}
    /\ engine.served[2].call.op = "search"
    /\ engine.served[2].found = {}
    /\ engine.served[3].call.op = "commit"
    /\ engine.served[4].found = {"doc_6"}
    /\ outcome = Returned(Found({"doc_6"}).raw)

====
